---- MODULE Spec2Model ----
(***************************************************************************)
(* Model of phokimo: the configuration reader (TomlReader), the energies   *)
(* read from the calculation outputs (State_Values), the energy            *)
(* difference / rate matrix builder (Reactions), the rate theories, the    *)
(* ODE right-hand sides (construct_ode, general_ode), the end of main()    *)
(* and the analysis functions (rate_dict, product_ratio, expfitting).      *)
(*                                                                         *)
(* Python dicts are modelled as sequences of <<key, value>> pairs in       *)
(* insertion order; numpy vectors and matrices as functions over index     *)
(* ranges 0..n-1; a raised Python exception as the value of exc.           *)
(***************************************************************************)
EXTENDS Integers, Sequences, FiniteSets, TLC

VARIABLES
    pc,            \* position of the running script
    exc,           \* exception that ended the run ("none" while running)
    raised_in,     \* method the exception came out of ("none" while running)
    data,          \* TomlReader.data: the parsed configuration
    name_to_num,   \* TomlReader.name_to_num
    reverse_name_to_num, \* TomlReader.reverse_name_to_num
    vis_name_list, \* TomlReader.vis_name_list
    ref_name,      \* TomlReader.ref_name
    reactant_names, \* TomlReader.reactant_names
    reactions_name, \* TomlReader.reactions_name
    reactions_num, \* TomlReader.reactions_num
    teq_graph,     \* TomlReader.teq_graph
    file_path,     \* TomlReader.file_path
    fs,            \* the calculation directory: its folders and output files
    hartree_array, \* State_Values.hartree_array
    reads,         \* output files opened so far, each with the state being resolved
    start_conc,    \* array returned by TomlReader.initial_conc()
    state_list_energy, \* argument of Reactions(...) and Reactions.rates(...)
    energy_differences, \* Reactions.energy_differences
    rate_constants, \* matrix returned by Reactions.rates()
    concentration, \* construct_ode argument: concentration vector
    t,             \* construct_ode argument: time
    table,         \* construct_ode argument: dict init -> list of finals
    rate_matrix,   \* construct_ode argument: N x N rate matrix
    odes,          \* tuple returned by construct_ode
    args,          \* arguments of the function under test
    result         \* what the call of the function under test gave

tomlVars ==
    <<data, name_to_num, reverse_name_to_num, vis_name_list, ref_name,
      reactant_names, reactions_name, reactions_num, teq_graph, file_path, fs>>

energyVars ==
    <<hartree_array, reads>>

reactionVars ==
    <<start_conc, state_list_energy, energy_differences, rate_constants>>

odeVars ==
    <<concentration, t, table, rate_matrix, odes>>

callVars ==
    <<args, result>>

vars ==
    <<pc, exc, raised_in, tomlVars, energyVars, reactionVars, odeVars, callVars>>

\* values of the variables an object not yet built, or a call not yet made, has
NoToml ==
    /\ name_to_num = <<>>
    /\ reverse_name_to_num = <<>>
    /\ vis_name_list = <<>>
    /\ ref_name = "None"
    /\ reactant_names = <<>>
    /\ reactions_name = <<>>
    /\ reactions_num = <<>>
    /\ teq_graph = <<>>
    /\ file_path = <<>>

NoEnergy ==
    /\ hartree_array = <<>>
    /\ reads = <<>>

NoReactions ==
    /\ start_conc = <<>>
    /\ state_list_energy = <<>>
    /\ energy_differences = <<>>
    /\ rate_constants = <<>>

NoCall ==
    /\ args = <<>>
    /\ result = <<>>

NoOde ==
    /\ concentration = <<>>
    /\ t = 0
    /\ table = <<>>
    /\ rate_matrix = <<>>
    /\ odes = <<>>

----------------------------------------------------------------------------
(* Bounds of the inputs *)

MaxEdges ==
    4

MaxTs ==
    1

MaxEnergy ==
    3

MaxAtoms ==
    3

MaxConc ==
    2

MaxRate ==
    1

MaxOdeConc ==
    1

MaxTime ==
    1

MaxFinals ==
    2

----------------------------------------------------------------------------
(* Generic helpers *)

SeqsUpTo(S, n) ==
    UNION {[1..k -> S] : k \in 0..n}

InjectiveSeqs(S) ==
    {s \in SeqsUpTo(S, Cardinality(S)) : \A i, j \in 1..Len(s) : s[i] = s[j] => i = j}

\* sum of the values of the function f over the finite set S
RECURSIVE SumSet(_, _)
SumSet(S, f) ==
    IF S = {} THEN 0
    ELSE LET x == CHOOSE y \in S : TRUE
         IN f[x] + SumSet(S \ {x}, f)

\* result of a Python call: a returned value or a raised exception
Ret(v) ==
    [ok |-> TRUE, val |-> v]

Raise(e) ==
    [ok |-> FALSE, val |-> e]

\* number of occurrences of x in the sequence s
Count(s, x) ==
    Cardinality({k \in 1..Len(s) : s[k] = x})

\* dict helpers (dict = sequence of <<key, value>> pairs, keys distinct)
DictKeys(d) ==
    [k \in 1..Len(d) |-> d[k][1]]

DictHas(d, key) ==
    \E k \in 1..Len(d) : d[k][1] = key

DictGet(d, key) ==
    d[CHOOSE k \in 1..Len(d) : d[k][1] = key][2]

\* d[key] = value: replaces the value of a present key in place, appends a new key
DictSet(d, key, value) ==
    IF DictHas(d, key)
    THEN [k \in 1..Len(d) |-> IF d[k][1] = key THEN <<key, value>> ELSE d[k]]
    ELSE Append(d, <<key, value>>)

\* the pairs <<a, b>> of a nested loop "for a in s: for b in s", in loop order
LoopPairs(s) ==
    [k \in 1..(Len(s) * Len(s)) |->
        <<s[((k - 1) \div Len(s)) + 1], s[((k - 1) % Len(s)) + 1]>>]

\* the elements of a sequence, as a set
Range(s) ==
    {s[k] : k \in 1..Len(s)}

----------------------------------------------------------------------------
(* toml_reader.py: TomlReader                                              *)
(*                                                                         *)
(* cfg is self.data, the parsed TOML document (n2n is self.name_to_num):   *)
(*   cfg.order              keys of data["state"], in document order      *)
(*   cfg.name[k]            data["state"][k]["name"]                      *)
(*   cfg.visualize_name[k]  data["state"][k]["visualize_name"]            *)
(*   cfg.conc[k]            data["state"][k]["conc"]                      *)
(*   cfg.condition[k]       data["state"][k]["condition"]                 *)
(*   cfg.reference          states k with "reference_state" in their table*)
(*   cfg.final[k][n]        data["state"][k]["final"][n]  (present flag)  *)
(*   cfg.ts[k][n]           data["state"][k]["ts"][n]     (present flag)  *)
(*   cfg.total_atoms        data["molecule"]["total_atoms"]               *)
(*   cfg.theory_level[k]    data["state"][k]["theory_level"]              *)
(*   cfg.target_spin_state[k]  data["state"][k]["target_spin_state"]:     *)
(*                          <<s>> for an int s, <<from, to>> for a list   *)
(*   cfg.substate[k]        data["state"][k]["substate"], <<>> if absent  *)
(*   cfg.substate_theory    data["substate"][u]["theory_level"], as a     *)
(*                          dict over the keys u of data["substate"]      *)
(* A folder of the calculation directory is named by the state or the     *)
(* substate it belongs to; an output file by <<folder, "sp">> or          *)
(* <<folder, "ground_sp">>.                                               *)
(***************************************************************************)

\* A TOML table has string keys only; Python keeps the int 1 and the str "1"
\* apart as dict keys, so a key carries its type.
PyStr(s) ==
    <<"str", s>>

PyInt(n) ==
    <<"int", n>>

\* the keys of self.data["state"]
StateTableKeys(cfg) ==
    {PyStr(cfg.order[k]) : k \in 1..Len(cfg.order)}

num_states(cfg) ==
    Len(cfg.order)

\* self.data["state"][state]["name"]
state_name(cfg, state) ==
    IF state \in StateTableKeys(cfg)
    THEN Ret(cfg.name[state[2]])
    ELSE Raise("KeyError")

visualize_state_name(cfg, state) ==
    cfg.visualize_name[state]

\* state_name_num_dict's loop with a counter that is never advanced
RECURSIVE state_name_num_loop_NoIncrement(_, _, _)
state_name_num_loop_NoIncrement(names, name_num_dict, counter) ==
    IF names = <<>> THEN name_num_dict
    ELSE state_name_num_loop_NoIncrement(Tail(names),
             IF ~DictHas(name_num_dict, Head(names))
             THEN DictSet(name_num_dict, Head(names), counter)
             ELSE name_num_dict,
             counter)

RECURSIVE state_name_num_loop(_, _, _)
state_name_num_loop(names, name_num_dict, counter) ==
    IF names = <<>> THEN name_num_dict
    ELSE IF ~DictHas(name_num_dict, Head(names))
         THEN state_name_num_loop(Tail(names),
                  DictSet(name_num_dict, Head(names), counter), counter + 1)
         ELSE state_name_num_loop(Tail(names), name_num_dict, counter)

state_name_num_dict(cfg) ==
    state_name_num_loop(cfg.order, <<>>, 0)

RECURSIVE reverse_loop(_, _)
reverse_loop(items, num_to_name) ==
    IF items = <<>> THEN num_to_name
    ELSE reverse_loop(Tail(items), DictSet(num_to_name, Head(items)[2], Head(items)[1]))

\* {num: name for name, num in self.name_to_num.items()}
reverse_state_name_num_dict(n2n) ==
    reverse_loop(n2n, <<>>)

\* self.name_to_num[state]
state_num(n2n, state) ==
    IF state[1] = "str" /\ DictHas(n2n, state[2])
    THEN Ret(DictGet(n2n, state[2]))
    ELSE Raise("KeyError")

conc(cfg, state) ==
    cfg.conc[state]

normal_mode(cfg, init, final) ==
    cfg.final[init][final].normal_mode

\* True, or a falsy value (False / None)
final_existence(cfg, init, fin) ==
    cfg.final[init][fin].present

ts_existence(cfg, init, ts) ==
    cfg.ts[init][ts].present

ts_num(cfg, n2n, init, ts) ==
    IF ~ts_existence(cfg, init, ts) THEN Raise("AssertionError")
    ELSE state_num(n2n, PyStr(ts))

ts_final_name(cfg, init, ts) ==
    IF ~ts_existence(cfg, init, ts) THEN Raise("AssertionError")
    ELSE LET final == PyInt(cfg.ts[init][ts].final)
         IN state_name(cfg, final)

ts_final_num(cfg, n2n, init, ts) ==
    IF ~ts_existence(cfg, init, ts) THEN Raise("AssertionError")
    ELSE LET final == PyInt(cfg.ts[init][ts].final)
         IN state_num(n2n, final)

final_num(cfg, n2n, init, fin) ==
    IF ~final_existence(cfg, init, fin) THEN Raise("AssertionError")
    ELSE state_num(n2n, PyStr(fin))

\* reaction_type that takes a missing entry for a relaxation
reaction_type_DefaultRelaxation(cfg, init, fin) ==
    IF final_existence(cfg, init, fin)
    THEN cfg.final[init][fin].reaction_type
    ELSE "vibrational relaxation"

\* the reaction type of a direct entry, "None" when there is no such entry
reaction_type(cfg, init, fin) ==
    IF final_existence(cfg, init, fin)
    THEN cfg.final[init][fin].reaction_type
    ELSE "None"

total_atoms(cfg) ==
    cfg.total_atoms

initial_conc(cfg, n2n) ==
    [n \in 0..(num_states(cfg) - 1) |->
        LET hits == {k \in 1..Len(n2n) : n2n[k][2] = n}
        IN IF hits = {} THEN 0
           ELSE conc(cfg, n2n[CHOOSE k \in hits : \A h \in hits : h <= k][1])]

visualize_state_list_name(cfg, n2n) ==
    [n \in 0..(num_states(cfg) - 1) |->
        LET hits == {k \in 1..Len(n2n) : n2n[k][2] = n}
        IN IF hits = {} THEN "name"
           ELSE visualize_state_name(cfg,
                    n2n[CHOOSE k \in hits : \A h \in hits : h <= k][1])]

RECURSIVE reaction_list_loop(_, _, _)
reaction_list_loop(cfg, pairs, reaction_list) ==
    IF pairs = <<>> THEN Ret(reaction_list)
    ELSE LET init == Head(pairs)[1]
             next == Head(pairs)[2]
             tsf == ts_final_name(cfg, init, next)
             l1 == IF ts_existence(cfg, init, next)
                   THEN Append(reaction_list, <<init, tsf.val>>)
                   ELSE reaction_list
             l2 == IF final_existence(cfg, init, next)
                   THEN Append(l1, <<init, next>>)
                   ELSE l1
         IN IF ts_existence(cfg, init, next) /\ ~tsf.ok THEN tsf
            ELSE reaction_list_loop(cfg, Tail(pairs), l2)

reaction_list_name(cfg, n2n) ==
    reaction_list_loop(cfg, LoopPairs(DictKeys(n2n)), <<>>)

\* reaction_list_num's loop with the two ends of an edge exchanged
RECURSIVE reaction_list_num_loop_Swapped(_, _, _)
reaction_list_num_loop_Swapped(n2n, edges, acc) ==
    IF edges = <<>> THEN Ret(acc)
    ELSE LET init == state_num(n2n, PyStr(Head(edges)[1]))
             fin == state_num(n2n, PyStr(Head(edges)[2]))
         IN IF ~init.ok THEN init
            ELSE IF ~fin.ok THEN fin
            ELSE reaction_list_num_loop_Swapped(n2n, Tail(edges),
                     Append(acc, <<fin.val, init.val>>))

RECURSIVE reaction_list_num_loop(_, _, _)
reaction_list_num_loop(n2n, edges, acc) ==
    IF edges = <<>> THEN Ret(acc)
    ELSE LET init == state_num(n2n, PyStr(Head(edges)[1]))
             fin == state_num(n2n, PyStr(Head(edges)[2]))
         IN IF ~init.ok THEN init
            ELSE IF ~fin.ok THEN fin
            ELSE reaction_list_num_loop(n2n, Tail(edges),
                     Append(acc, <<init.val, fin.val>>))

reaction_list_num(n2n, reactions) ==
    reaction_list_num_loop(n2n, reactions, <<>>)

RECURSIVE condition_loop(_, _, _, _)
condition_loop(cfg, names, cond, acc) ==
    IF names = <<>> THEN acc
    ELSE condition_loop(cfg, Tail(names), cond,
             IF cfg.condition[Head(names)] = cond THEN Append(acc, Head(names)) ELSE acc)

reactant_list_name(cfg, n2n) ==
    condition_loop(cfg, DictKeys(n2n), "reactant", <<>>)

product_list_name(cfg, n2n) ==
    condition_loop(cfg, DictKeys(n2n), "product", <<>>)

\* the first state that carries the marker, "None" when there is none
reference_state(cfg, n2n) ==
    LET names == DictKeys(n2n)
        hits == {k \in 1..Len(names) : names[k] \in cfg.reference}
    IN IF hits = {} THEN "None"
       ELSE names[CHOOSE k \in hits : \A h \in hits : k <= h]

\* [s, s] for an int, the list itself otherwise
target_spin_state(cfg, state) ==
    IF state \notin Range(cfg.order) THEN Raise("KeyError")
    ELSE LET spin_state == cfg.target_spin_state[state]
         IN IF Len(spin_state) = 1
            THEN Ret(<<spin_state[1], spin_state[1]>>)
            ELSE Ret(spin_state)

substate_existence(cfg, state) ==
    cfg.substate[state] # <<>>

substate_list(cfg, state) ==
    cfg.substate[state]

theory_level(cfg, n2n, state, substate, ground) ==
    IF state = reference_state(cfg, n2n)
    THEN Ret(IF ~ground THEN "excited" ELSE "ground")
    ELSE IF substate
         THEN IF DictHas(cfg.substate_theory, state)
              THEN Ret(DictGet(cfg.substate_theory, state))
              ELSE Raise("KeyError")
         ELSE IF state \in Range(cfg.order)
              THEN Ret(cfg.theory_level[state])
              ELSE Raise("KeyError")

\* the output file of a folder for a theory level
OutputPath(folder, level) ==
    <<folder, IF level = "ground" THEN "ground_sp" ELSE "sp">>

\* file_path_dict, the part of a state with substates
RECURSIVE file_path_substates(_, _, _, _, _, _)
file_path_substates(cfg, n2n, dir, state, substates, sub_dict) ==
    IF substates = <<>> THEN Ret(sub_dict)
    ELSE LET substate == Head(substates)
             level == theory_level(cfg, n2n, state, TRUE, FALSE)
         IN IF ~DictHas(cfg.substate_theory, substate) THEN Raise("KeyError")
            ELSE IF substate \notin dir.folders
                 THEN file_path_substates(cfg, n2n, dir, state, Tail(substates), sub_dict)
            ELSE IF ~level.ok THEN level
            ELSE file_path_substates(cfg, n2n, dir, state, Tail(substates),
                     DictSet(sub_dict, substate, OutputPath(substate, level.val)))

RECURSIVE file_path_loop(_, _, _, _, _)
file_path_loop(cfg, n2n, dir, states, paths) ==
    IF states = <<>> THEN Ret(paths)
    ELSE LET state == Head(states)
             subs == file_path_substates(cfg, n2n, dir, state, cfg.substate[state], <<>>)
             level == theory_level(cfg, n2n, state, FALSE, FALSE)
         IN IF cfg.substate[state] # <<>>
            THEN IF ~subs.ok THEN subs
                 ELSE file_path_loop(cfg, n2n, dir, Tail(states),
                          DictSet(paths, state, subs.val))
            ELSE IF state \notin dir.folders
                 THEN file_path_loop(cfg, n2n, dir, Tail(states), paths)
                 ELSE file_path_loop(cfg, n2n, dir, Tail(states),
                          DictSet(paths, state, OutputPath(state, level.val)))

file_path_dict(cfg, n2n, dir) ==
    file_path_loop(cfg, n2n, dir, DictKeys(n2n), <<>>)

\* None (a path that no file has) when the reference has no folder
ref_file_path(cfg, name, dir, ground) ==
    IF name \in dir.folders
    THEN Ret(OutputPath(name, IF ground THEN "ground" ELSE "excited"))
    ELSE Ret(<<"None", "None">>)

\* nodes of the nx.DiGraph built by G.add_edges_from(edges)
GraphNodes(edges) ==
    {edges[k][1] : k \in 1..Len(edges)} \cup {edges[k][2] : k \in 1..Len(edges)}

RECURSIVE successors_loop(_, _, _)
successors_loop(edges, node, acc) ==
    IF edges = <<>> THEN acc
    ELSE successors_loop(Tail(edges), node,
             IF Head(edges)[1] = node /\ Head(edges)[2] \notin Range(acc)
             THEN Append(acc, Head(edges)[2])
             ELSE acc)

\* G.successors(node): the distinct successors, in the order their edges were added
successors(edges, node) ==
    successors_loop(edges, node, <<>>)

\* A call chain deeper than the number of nodes has come back to a node, and
\* from there get_descendants recurses for ever: Python ends it with
\* RecursionError once its recursion limit is hit.
RecursionLimit(edges) ==
    Cardinality(GraphNodes(edges))

\* get_descendants that lists the edges to the children and goes no deeper
RECURSIVE get_descendants_loop_NoRecursion(_, _, _, _, _)
get_descendants_loop_NoRecursion(edges, node, children, depth, descendants) ==
    IF children = <<>> THEN Ret(descendants)
    ELSE get_descendants_loop_NoRecursion(edges, node, Tail(children), depth,
             Append(descendants, <<node, Head(children)>>))

RECURSIVE get_descendants(_, _, _)
RECURSIVE get_descendants_loop(_, _, _, _, _)
get_descendants_loop(edges, node, children, depth, descendants) ==
    IF children = <<>> THEN Ret(descendants)
    ELSE LET child == Head(children)
             sub == get_descendants(edges, child, depth + 1)
         IN IF ~sub.ok THEN sub
            ELSE get_descendants_loop(edges, node, Tail(children), depth,
                     Append(descendants, <<node, child>>) \o sub.val)

get_descendants(edges, node, depth) ==
    IF depth > RecursionLimit(edges) THEN Raise("RecursionError")
    ELSE get_descendants_loop(edges, node, successors(edges, node), depth, <<>>)

\* defaultdict(list) lookup: a missing key reads as the empty list
GroupOf(parent_groups, parent) ==
    IF DictHas(parent_groups, parent) THEN DictGet(parent_groups, parent) ELSE <<>>

RECURSIVE parent_groups_loop(_, _, _)
parent_groups_loop(edges, direct_children, parent_groups) ==
    IF direct_children = <<>> THEN Ret(parent_groups)
    ELSE LET parent == Head(direct_children)
             descendants == get_descendants(edges, parent, 1)
         IN IF ~descendants.ok THEN descendants
            ELSE parent_groups_loop(edges, Tail(direct_children),
                     IF descendants.val # <<>>
                     THEN DictSet(parent_groups, parent,
                              GroupOf(parent_groups, parent) \o descendants.val)
                     ELSE parent_groups)

RECURSIVE whole_groups_loop(_, _, _)
whole_groups_loop(edges, roots, whole_groups) ==
    IF roots = <<>> THEN Ret(whole_groups)
    ELSE LET root == Head(roots)
             parent_groups == parent_groups_loop(edges, successors(edges, root), <<>>)
         IN IF root \notin GraphNodes(edges) THEN Raise("NetworkXError")
            ELSE IF ~parent_groups.ok THEN parent_groups
            ELSE whole_groups_loop(edges, Tail(roots),
                     DictSet(whole_groups, root, parent_groups.val))

graph_teq_group(roots, edges) ==
    whole_groups_loop(edges, roots, <<>>)

----------------------------------------------------------------------------
(* rate_constants.py: a rate constant is kept as the theory and the       *)
(* arguments it was computed from.                                         *)

\* temperatures in hundredths of a kelvin
T_NEQ ==
    30000

T_EYRING ==
    32905

\* T = base + num / (den * R_GAS)
Temperature(base, num, den) ==
    [base |-> base, num |-> num, den |-> IF num = 0 /\ den # 0 THEN 1 ELSE den]

ZeroRate ==
    [theory |-> "zero", dE |-> 0, n_modes |-> 0, n_atoms |-> 0, T |-> Temperature(0, 0, 1)]

EyringEquation_compute_rate(dG, T) ==
    [theory |-> "eyring", dE |-> dG, n_modes |-> 0, n_atoms |-> 0, T |-> T]

AdhocRelaxation_compute_rate(dE, n_modes, n_atoms, T) ==
    [theory |-> "relaxation", dE |-> dE, n_modes |-> n_modes, n_atoms |-> n_atoms, T |-> T]

----------------------------------------------------------------------------
(* terachem_values.py: Reactions *)

RECURSIVE dEs_loop(_, _, _, _, _)
dEs_loop(cfg, n2n, energy, pairs, dmat) ==
    IF pairs = <<>> THEN Ret(dmat)
    ELSE LET init == Head(pairs)[1]
             next == Head(pairs)[2]
             init_num == DictGet(n2n, init)
             tsn == ts_num(cfg, n2n, init, next)
             tsf == ts_final_num(cfg, n2n, init, next)
             d1 == IF ts_existence(cfg, init, next)
                   THEN [dmat EXCEPT ![init_num][tsf.val] = energy[tsn.val] - energy[init_num]]
                   ELSE dmat
             fn == final_num(cfg, n2n, init, next)
             d2 == IF /\ final_existence(cfg, init, next)
                      /\ reaction_type(cfg, init, next) = "vibrational relaxation"
                   THEN [d1 EXCEPT ![init_num][fn.val] = energy[fn.val] - energy[init_num]]
                   ELSE d1
         IN IF ts_existence(cfg, init, next) /\ ~tsn.ok THEN tsn
            ELSE IF ts_existence(cfg, init, next) /\ ~tsf.ok THEN tsf
            ELSE dEs_loop(cfg, n2n, energy, Tail(pairs), d2)

ZeroMatrix(n, zero) ==
    [i \in 0..(n - 1) |-> [j \in 0..(n - 1) |-> zero]]

dEs(cfg, n2n, energy) ==
    dEs_loop(cfg, n2n, energy, LoopPairs(DictKeys(n2n)),
             ZeroMatrix(num_states(cfg), 0))

T_eq(cfg, n2n, energy, reactant, temp_state) ==
    LET reactant_num == DictGet(n2n, reactant)
        temp_state_num == DictGet(n2n, temp_state)
    IN Temperature(T_NEQ, energy[reactant_num] - energy[temp_state_num],
                   3 * total_atoms(cfg) - 6)

\* the loop over temp_state that stops at the first group holding the edge
RECURSIVE rates_temp_loop_FirstWins(_, _, _, _, _, _, _, _, _, _)
rates_temp_loop_FirstWins(cfg, n2n, energy, dE, reactant, groups, temp_states, init, next, rmat) ==
    IF temp_states = <<>> THEN Ret(rmat)
    ELSE LET temp_state == Head(temp_states)
             init_num == DictGet(n2n, init)
             next_num == DictGet(n2n, next)
             teq == T_eq(cfg, n2n, energy, reactant, temp_state)
         IN IF /\ <<init, next>> \in Range(GroupOf(groups, temp_state))
               /\ reaction_type(cfg, init, next) = "vibrational relaxation"
            THEN Ret([rmat EXCEPT ![init_num][next_num] =
                         AdhocRelaxation_compute_rate(dE[init_num][next_num],
                             normal_mode(cfg, init, next), total_atoms(cfg), teq)])
            ELSE rates_temp_loop_FirstWins(cfg, n2n, energy, dE, reactant, groups,
                                           Tail(temp_states), init, next, rmat)

\* for temp_state in graph_teq_reactant
RECURSIVE rates_temp_loop(_, _, _, _, _, _, _, _, _, _)
rates_temp_loop(cfg, n2n, energy, dE, reactant, groups, temp_states, init, next, rmat) ==
    IF temp_states = <<>> THEN Ret(rmat)
    ELSE LET temp_state == Head(temp_states)
             init_num == DictGet(n2n, init)
             next_num == DictGet(n2n, next)
             teq == T_eq(cfg, n2n, energy, reactant, temp_state)
             fin == ts_final_name(cfg, init, next)
             fin_num == state_num(n2n, PyStr(fin.val))
             rest(r) == rates_temp_loop(cfg, n2n, energy, dE, reactant, groups,
                                        Tail(temp_states), init, next, r)
         IN IF \/ <<init, next>> \in Range(GroupOf(groups, temp_state))
               \/ ts_existence(cfg, init, next)
            THEN IF ts_existence(cfg, init, next)
                 THEN IF ~fin.ok THEN fin
                      ELSE IF ~fin_num.ok THEN fin_num
                      ELSE rest([rmat EXCEPT ![init_num][fin_num.val] =
                               EyringEquation_compute_rate(dE[init_num][fin_num.val],
                                   Temperature(T_EYRING, 0, 1))])
                 ELSE IF reaction_type(cfg, init, next) = "vibrational relaxation"
                      THEN rest([rmat EXCEPT ![init_num][next_num] =
                               AdhocRelaxation_compute_rate(dE[init_num][next_num],
                                   normal_mode(cfg, init, next), total_atoms(cfg), teq)])
                      ELSE rest(rmat)
            ELSE rest(rmat)

\* for init in name_to_num: for next in name_to_num
RECURSIVE rates_pair_loop(_, _, _, _, _, _, _, _)
rates_pair_loop(cfg, n2n, energy, dE, reactant, groups, pairs, rmat) ==
    IF pairs = <<>> THEN Ret(rmat)
    ELSE LET init == Head(pairs)[1]
             next == Head(pairs)[2]
             init_num == DictGet(n2n, init)
             next_num == DictGet(n2n, next)
             inner == rates_temp_loop(cfg, n2n, energy, dE, reactant, groups,
                                      DictKeys(groups), init, next, rmat)
             rest(r) == rates_pair_loop(cfg, n2n, energy, dE, reactant, groups,
                                        Tail(pairs), r)
         IN IF init = reactant
            THEN IF reaction_type(cfg, init, next) = "vibrational relaxation"
                 THEN rest([rmat EXCEPT ![init_num][next_num] =
                          AdhocRelaxation_compute_rate(dE[init_num][next_num],
                              normal_mode(cfg, init, next), total_atoms(cfg),
                              Temperature(T_NEQ, 0, 1))])
                 ELSE rest(rmat)
            ELSE IF ~inner.ok THEN inner ELSE rest(inner.val)

\* for reactant in reactants
RECURSIVE rates_reactant_loop(_, _, _, _, _, _, _)
rates_reactant_loop(cfg, n2n, energy, dE, teq_groups, reactants, rmat) ==
    IF reactants = <<>> THEN Ret(rmat)
    ELSE LET reactant == Head(reactants)
             done == rates_pair_loop(cfg, n2n, energy, dE, reactant,
                                     DictGet(teq_groups, reactant),
                                     LoopPairs(DictKeys(n2n)), rmat)
         IN IF ~done.ok THEN done
            ELSE rates_reactant_loop(cfg, n2n, energy, dE, teq_groups,
                                     Tail(reactants), done.val)

rates(cfg, n2n, teq_groups, energy) ==
    LET dE == dEs(cfg, n2n, energy)
    IN IF ~dE.ok THEN dE
       ELSE rates_reactant_loop(cfg, n2n, energy, dE.val, teq_groups,
                                reactant_list_name(cfg, n2n),
                                ZeroMatrix(num_states(cfg), ZeroRate))

----------------------------------------------------------------------------
(* ode_builder.py *)

\* construct_ode's inner loop without the gain of the target state
RECURSIVE construct_ode_finals_NoGain(_, _, _, _, _)
construct_ode_finals_NoGain(acc, init, final, rmat, cvec) ==
    IF final = <<>> THEN acc
    ELSE LET target_final == Head(final)
             flux == rmat[init][target_final] * cvec[init]
         IN construct_ode_finals_NoGain([acc EXCEPT ![init] = @ - flux], init,
                                        Tail(final), rmat, cvec)

\* construct_ode's inner loop with the flux taken from the target state and
\* given to the initial state
RECURSIVE construct_ode_finals_Backward(_, _, _, _, _)
construct_ode_finals_Backward(acc, init, final, rmat, cvec) ==
    IF final = <<>> THEN acc
    ELSE LET target_final == Head(final)
             flux == rmat[init][target_final] * cvec[init]
             o1 == [acc EXCEPT ![init] = @ + flux]
             o2 == [o1 EXCEPT ![target_final] = @ - flux]
         IN construct_ode_finals_Backward(o2, init, Tail(final), rmat, cvec)

\* inner loop of construct_ode: for target_final in final
RECURSIVE construct_ode_finals(_, _, _, _, _)
construct_ode_finals(acc, init, final, rmat, cvec) ==
    IF final = <<>> THEN acc
    ELSE LET target_final == Head(final)
             flux == rmat[init][target_final] * cvec[init]
             o1 == [acc EXCEPT ![init] = @ - flux]
             o2 == [o1 EXCEPT ![target_final] = @ + flux]
         IN construct_ode_finals(o2, init, Tail(final), rmat, cvec)

\* outer loop of construct_ode: for init, final in table.items()
RECURSIVE construct_ode_items(_, _, _, _)
construct_ode_items(acc, items, rmat, cvec) ==
    IF items = <<>> THEN acc
    ELSE construct_ode_items(
             construct_ode_finals(acc, Head(items)[1], Head(items)[2], rmat, cvec),
             Tail(items), rmat, cvec)

\* construct_ode with a right-hand side that grows with the time argument
construct_ode_TimeScaled(cvec, time, tbl, rmat) ==
    LET o == construct_ode_items([i \in DOMAIN cvec |-> 0], tbl, rmat, cvec)
    IN [i \in DOMAIN cvec |-> o[i] * (1 + time)]

construct_ode(cvec, time, tbl, rmat) ==
    construct_ode_items([i \in DOMAIN cvec |-> 0], tbl, rmat, cvec)

----------------------------------------------------------------------------
(* io/terachem.py: TeraChemOutputReader, and terachem_values.py:           *)
(* State_Values.  An output file is a record                               *)
(*   finished      a " Job finished:" line is found by _check_finish       *)
(*   has_roots     the file has a CI root table                            *)
(*   roots         the total energies of the table's rows, root 1 first    *)
(*   final_energy  <<e>> for the first "FINAL ENERGY:" line, <<>> if none  *)
(* Energies are whole numbers of a small unit; root energies are even, so  *)
(* that halving a sum of two of them is exact.                             *)

\* np.nan: any arithmetic with it gives it back
NaN ==
    -1000000

FAdd(a, b) ==
    IF a = NaN \/ b = NaN THEN NaN ELSE a + b

FSub(a, b) ==
    IF a = NaN \/ b = NaN THEN NaN ELSE a - b

FHalf(a) ==
    IF a = NaN THEN NaN ELSE a \div 2

NonePath ==
    <<"None", "None">>

\* TeraChemOutputReader(file_path)
TeraChemOutputReader(dir, path) ==
    IF path = NonePath THEN Raise("AttributeError")
    ELSE IF path \notin DOMAIN dir.files THEN Raise("FileNotFoundError")
    ELSE IF ~dir.files[path].finished THEN Raise("AssertionError")
    ELSE Ret(dir.files[path])

\* the energies list of ci_energy(max_roots)
ci_energy(file, max_roots) ==
    IF ~file.has_roots THEN <<NaN>>
    ELSE SubSeq(file.roots, 1,
                IF Len(file.roots) < max_roots THEN Len(file.roots) ELSE max_roots)

MAX_ROOTS ==
    5

\* the value terachem_output takes from an opened file
energy_value(file, level, spin) ==
    IF level = "excited"
    THEN LET energies == ci_energy(file, MAX_ROOTS)
         IN IF spin[1] >= Len(energies) \/ spin[2] >= Len(energies)
            THEN Raise("IndexError")
            ELSE Ret(FHalf(FAdd(energies[spin[1] + 1], energies[spin[2] + 1])))
    ELSE IF file.final_energy = <<>>
         THEN Raise("UnboundLocalError")
         ELSE Ret(file.final_energy[1])

\* the result of a call together with the files it opened
Out(ok, val, opened) ==
    [ok |-> ok, val |-> val, reads |-> opened]

WithReads(r, opened) ==
    Out(r.ok, r.val, opened)

\* the value is read from the opened file
read_value(file, path, level, spin) ==
    IF ~file.ok THEN Out(FALSE, file.val, <<path>>)
    ELSE IF ~level.ok THEN Out(FALSE, level.val, <<path>>)
    ELSE WithReads(energy_value(file.val, level.val, spin), <<path>>)

\* the file is opened, then the theory level is looked up, then the value is read
read_energy(dir, path, level, spin) ==
    IF ~path.ok THEN Out(FALSE, path.val, <<>>)
    ELSE read_value(TeraChemOutputReader(dir, path.val), path.val, level, spin)

\* the file terachem_output opens; substate_name is "None" when left out
output_path(cfg, n2n, paths, dir, state, substate_name, ground) ==
    IF reference_state(cfg, n2n) = state
    THEN ref_file_path(cfg, state, dir, ground)
    ELSE IF ~DictHas(paths, state) THEN Raise("KeyError")
    ELSE IF substate_name = "None" THEN Ret(DictGet(paths, state))
    ELSE IF ~DictHas(DictGet(paths, state), substate_name) THEN Raise("KeyError")
    ELSE Ret(DictGet(DictGet(paths, state), substate_name))

\* the theory level terachem_output reads the file at
output_level(cfg, n2n, state, substate_name, ground) ==
    IF reference_state(cfg, n2n) = state
    THEN Ret(IF ground THEN "ground" ELSE "excited")
    ELSE IF substate_name = "None"
    THEN theory_level(cfg, n2n, state, FALSE, FALSE)
    ELSE theory_level(cfg, n2n, substate_name, TRUE, FALSE)

terachem_output(cfg, n2n, paths, dir, state, substate_name, ground) ==
    IF ~target_spin_state(cfg, state).ok THEN Out(FALSE, "KeyError", <<>>)
    ELSE read_energy(dir,
                     output_path(cfg, n2n, paths, dir, state, substate_name, ground),
                     output_level(cfg, n2n, state, substate_name, ground),
                     target_spin_state(cfg, state).val)

\* acc then part: the sum so far and the files opened so far
Accumulate(acc, part) ==
    IF ~part.ok THEN Out(FALSE, part.val, acc.reads \o part.reads)
    ELSE Out(TRUE, FAdd(acc.val, part.val), acc.reads \o part.reads)

\* hartree_energy += terachem_output(state, substate_name = substate)
RECURSIVE substates_loop(_, _, _, _, _, _, _)
substates_loop(cfg, n2n, paths, dir, state, substates, acc) ==
    IF substates = <<>> \/ ~acc.ok THEN acc
    ELSE substates_loop(cfg, n2n, paths, dir, state, Tail(substates),
             Accumulate(acc, terachem_output(cfg, n2n, paths, dir, state,
                                             Head(substates), FALSE)))

\* hartree_energy - reference_energy; the reference is resolved second
Difference(hartree_energy, reference_energy) ==
    IF ~hartree_energy.ok THEN hartree_energy
    ELSE IF ~reference_energy.ok
    THEN Out(FALSE, reference_energy.val, hartree_energy.reads \o reference_energy.reads)
    ELSE Out(TRUE, FSub(hartree_energy.val, reference_energy.val),
             hartree_energy.reads \o reference_energy.reads)

\* the body of the loop for a state that is not the reference
relative_energy(cfg, n2n, ref, paths, dir, state) ==
    Difference(
        IF substate_existence(cfg, state)
        THEN substates_loop(cfg, n2n, paths, dir, state, substate_list(cfg, state),
                            Out(TRUE, 0, <<>>))
        ELSE terachem_output(cfg, n2n, paths, dir, state, "None", FALSE),
        terachem_output(cfg, n2n, paths, dir, ref, "None",
                        theory_level(cfg, n2n, state, FALSE, FALSE).val # "excited"))

\* the reference is resolved like every other state
state_loop_NoShortcut(cfg, n2n, ref, paths, dir, state) ==
    relative_energy(cfg, n2n, ref, paths, dir, state)

\* one pass of the loop over the states: the reference gets 0.0 and opens nothing
state_loop(cfg, n2n, ref, paths, dir, state) ==
    IF state = ref THEN Out(TRUE, 0, <<>>)
    ELSE relative_energy(cfg, n2n, ref, paths, dir, state)

\* every opened file is logged with the state the loop was at
Tagged(state, opened) ==
    [k \in 1..Len(opened) |-> [state |-> state, path |-> opened[k]]]

\* the array and the log after the pass that gave r
Stored(n2n, state, arr, log, r) ==
    IF ~r.ok THEN Out(FALSE, r.val, log \o Tagged(state, r.reads))
    ELSE Out(TRUE, [arr EXCEPT ![DictGet(n2n, state)] = r.val],
             log \o Tagged(state, r.reads))

RECURSIVE hartree_loop(_, _, _, _, _, _, _)
hartree_loop(cfg, n2n, ref, paths, dir, states, acc) ==
    IF states = <<>> \/ ~acc.ok THEN acc
    ELSE hartree_loop(cfg, n2n, ref, paths, dir, Tail(states),
             Stored(n2n, Head(states), acc.val, acc.reads,
                    state_loop(cfg, n2n, ref, paths, dir, Head(states))))

state_relative_list_hartree(cfg, n2n, ref, paths, dir) ==
    hartree_loop(cfg, n2n, ref, paths, dir, DictKeys(n2n),
                 Out(TRUE, [i \in 0..(num_states(cfg) - 1) |-> 0], <<>>))

----------------------------------------------------------------------------
(* Configurations the reader is run on *)

StateKeys ==
    {"A", "B", "C", "D"}

NameLabel ==
    [k \in StateKeys |->
        CASE k = "A" -> "nameA" [] k = "B" -> "nameB" [] k = "C" -> "nameC" [] OTHER -> "nameD"]

VisLabel ==
    [k \in StateKeys |->
        CASE k = "A" -> "visA" [] k = "B" -> "visB" [] k = "C" -> "visC" [] OTHER -> "visD"]

NoFinal ==
    [present |-> FALSE, reaction_type |-> "None", normal_mode |-> 0]

FinalEntry(type, modes) ==
    [present |-> TRUE, reaction_type |-> type, normal_mode |-> modes]

NoTs ==
    [present |-> FALSE, final |-> 0]

TsEntry(final) ==
    [present |-> TRUE, final |-> final]

KeyIndex(order, k) ==
    CHOOSE i \in 1..Len(order) : order[i] = k

\* the normal_mode value of an entry: a different number for every entry
ModeOf(order, i, n) ==
    Len(order) * (KeyIndex(order, i) - 1) + KeyIndex(order, n)

\* vib, emis: sets of <<init, next>>; tsset: set of <<init, ts, final>>
MkConfig(order, concs, reactants, vib, emis, tsset, atoms) ==
    [order |-> order,
     name |-> [k \in Range(order) |-> NameLabel[k]],
     visualize_name |-> [k \in Range(order) |-> VisLabel[k]],
     conc |-> concs,
     condition |-> [k \in Range(order) |->
                       IF k \in reactants THEN "reactant"
                       ELSE IF k = order[Len(order)] THEN "product"
                       ELSE "intermediate"],
     reference |-> {order[1]},
     final |-> [i \in Range(order) |-> [n \in Range(order) |->
                   IF <<i, n>> \in vib
                   THEN FinalEntry("vibrational relaxation", ModeOf(order, i, n))
                   ELSE IF <<i, n>> \in emis
                   THEN FinalEntry("emission", ModeOf(order, i, n))
                   ELSE NoFinal]],
     ts |-> [i \in Range(order) |-> [n \in Range(order) |->
                   IF \E e \in tsset : e[1] = i /\ e[2] = n
                   THEN TsEntry((CHOOSE e \in tsset : e[1] = i /\ e[2] = n)[3])
                   ELSE NoTs]],
     total_atoms |-> atoms,
     theory_level |-> [k \in Range(order) |-> "excited"],
     target_spin_state |-> [k \in Range(order) |-> <<0>>],
     substate |-> [k \in Range(order) |-> <<>>],
     substate_theory |-> <<>>]

\* names of the folders a calculation directory can hold
Folders ==
    StateKeys \cup {"u", "v"}

FolderBase ==
    [f \in Folders |->
        CASE f = "A" -> 1 [] f = "B" -> 2 [] f = "C" -> 3 [] f = "D" -> 4
          [] f = "u" -> 5 [] OTHER -> 6]

\* a finished excited-state output with n roots, every energy its own even number
SpFile(f, n) ==
    [finished |-> TRUE,
     has_roots |-> TRUE,
     roots |-> [k \in 1..n |-> 2 * (10 * FolderBase[f] + k * k)],
     final_energy |-> <<20 * FolderBase[f] - 3>>]

\* a finished ground-state output: no root table
GroundFile(f) ==
    [finished |-> TRUE,
     has_roots |-> FALSE,
     roots |-> <<>>,
     final_energy |-> <<20 * FolderBase[f] - 7>>]

Damaged(file, damage) ==
    CASE damage = "unfinished" -> [file EXCEPT !.finished = FALSE]
      [] damage = "no_roots" -> [file EXCEPT !.has_roots = FALSE, !.roots = <<>>]
      [] damage = "no_final" -> [file EXCEPT !.final_energy = <<>>]
      [] OTHER -> file

\* a directory with the given folders; the outputs of the folder hit carry the
\* damage, or do not exist when the damage is "missing"; with "no_folder" the
\* folder itself does not exist
MkDir(folders, n, hit, damage) ==
    LET present == IF damage \in {"missing", "no_folder"} THEN folders \ {hit}
                   ELSE folders
    IN [folders |-> IF damage = "no_folder" THEN folders \ {hit} ELSE folders,
        files |-> [path \in present \X {"sp", "ground_sp"} |->
                      LET file == IF path[2] = "sp" THEN SpFile(path[1], n)
                                  ELSE GroundFile(path[1])
                      IN IF path[1] = hit THEN Damaged(file, damage) ELSE file]]

DefaultDir(order) ==
    MkDir(Range(order), 1, "A", "none")

PairsOf(order) ==
    {p \in Range(order) \X Range(order) : p[1] # p[2]}

\* the subsets of pairs with at most n elements
RECURSIVE EdgeSets(_, _)
EdgeSets(pairs, n) ==
    IF n <= 0 THEN {{}}
    ELSE LET smaller == EdgeSets(pairs, n - 1)
         IN smaller \cup {e \cup {x} : e \in smaller, x \in pairs}

Atoms ==
    3..MaxAtoms

DefaultConc(order) ==
    [k \in Range(order) |-> IF k = order[1] THEN 1 ELSE 0]

\* four states, relaxation edges only, one or two reactants
OrderG ==
    <<"A", "B", "C", "D">>

InitG(d) ==
    \E r \in {{"A"}, {"A", "B"}}, v \in EdgeSets(PairsOf(OrderG), MaxEdges), a \in Atoms :
        d = MkConfig(OrderG, DefaultConc(OrderG), r, v, {}, {}, a)

\* three states, relaxation, emission and transition-state entries
OrderK ==
    <<"A", "B", "C">>

TsSets ==
    {s \in EdgeSets(PairsOf(OrderK) \X (0..(Len(OrderK) - 1)), MaxTs) :
        \A x, y \in s : x[1] = y[1] => x = y}

InitK(d) ==
    \E v \in EdgeSets(PairsOf(OrderK), MaxEdges) :
        \E e \in EdgeSets(PairsOf(OrderK) \ v, MaxEdges - Cardinality(v)),
           s \in TsSets :
            d = MkConfig(OrderK, DefaultConc(OrderK), {"A"}, v, e,
                         {<<x[1][1], x[1][2], x[2]>> : x \in s}, 3)

\* every order of every non-empty set of states, a chain of relaxation edges
ChainEdges(order) ==
    {<<"A", "B">>, <<"B", "C">>, <<"C", "D">>} \cap (Range(order) \X Range(order))

InitL(d) ==
    \E o \in InjectiveSeqs(StateKeys) \ {<<>>} :
        \E c \in [Range(o) -> 0..MaxConc] :
            d = MkConfig(o, c, {"A"} \cap Range(o), ChainEdges(o), {}, {}, 3)

\* three states with theory levels, spin channels, substates of "C" and a
\* reference marker on none, one or two of them; one folder may be damaged
OrderE ==
    <<"A", "B", "C">>

MaxRoots ==
    3

SpinChoices ==
    {<<0>>, <<1>>, <<0, 1>>, <<0, 2>>}

SubstateChoices ==
    {<<>>, <<"u", "v">>, <<"C", "u">>}

ReferenceChoices ==
    {{}, {"A"}, {"B"}, {"C"}, {"A", "C"}}

Damages ==
    {"none", "missing", "no_folder", "unfinished", "no_roots", "no_final"}

InitE(d, dir) ==
    \E ref \in ReferenceChoices, lev \in [Range(OrderE) -> {"excited", "ground"}],
       spin \in SpinChoices, subs \in SubstateChoices, sublev \in {"excited", "ground"},
       n \in 1..MaxRoots, hit \in {"A", "B"}, damage \in Damages :
        /\ damage = "none" => hit = "A"
        /\ d = [MkConfig(OrderE, DefaultConc(OrderE), {"A"}, {<<"A", "B">>, <<"B", "C">>},
                         {}, {}, 3)
                    EXCEPT !.reference = ref,
                           !.theory_level = lev,
                           !.target_spin_state = [k \in Range(OrderE) |-> spin],
                           !.substate = [k \in Range(OrderE) |->
                                            IF k = "C" THEN subs ELSE <<>>],
                           !.substate_theory = [k \in 1..Len(subs) |-> <<subs[k], sublev>>]]
        /\ dir = MkDir(Range(OrderE) \cup Range(subs), n, hit, damage)

\* energies of the states: strictly rising or strictly falling with the index
EnergyVectors(n) ==
    {e \in [0..(n - 1) -> 0..MaxEnergy] :
        \/ \A i, j \in 0..(n - 1) : i < j => e[i] < e[j]
        \/ \A i, j \in 0..(n - 1) : i < j => e[i] > e[j]}

----------------------------------------------------------------------------
(* The run: TomlReader(path), initial_conc(), Reactions(...), rates(...)   *)

Init ==
    /\ pc = "start"
    /\ exc = "none"
    /\ raised_in = "none"
    /\ \/ InitG(data)
       \/ InitK(data)
       \/ InitL(data)
    /\ fs = DefaultDir(data.order)
    /\ NoToml
    /\ NoEnergy
    /\ NoReactions
    /\ NoCall
    /\ NoOde

\* TomlReader.__init__: the fields are assigned in order, up to the first
\* call that raises
TomlReaderInit ==
    /\ pc = "start"
    /\ LET n2n == state_name_num_dict(data)
           reactants == reactant_list_name(data, n2n)
           rname == reaction_list_name(data, n2n)
           rnum == reaction_list_num(n2n, rname.val)
           teq == graph_teq_group(reactants, rname.val)
           paths == file_path_dict(data, n2n, fs)
       IN /\ name_to_num' = n2n
          /\ reverse_name_to_num' = reverse_state_name_num_dict(n2n)
          /\ vis_name_list' = visualize_state_list_name(data, n2n)
          /\ ref_name' = reference_state(data, n2n)
          /\ reactant_names' = reactants
          /\ IF ~rname.ok
             THEN /\ pc' = "raised"
                  /\ exc' = rname.val
                  /\ raised_in' = "reaction_list_name"
                  /\ UNCHANGED <<reactions_name, reactions_num, teq_graph, file_path>>
             ELSE /\ reactions_name' = rname.val
                  /\ IF ~rnum.ok
                     THEN /\ pc' = "raised"
                          /\ exc' = rnum.val
                          /\ raised_in' = "reaction_list_num"
                          /\ UNCHANGED <<reactions_num, teq_graph, file_path>>
                     ELSE /\ reactions_num' = rnum.val
                          /\ IF ~teq.ok
                             THEN /\ pc' = "raised"
                                  /\ exc' = teq.val
                                  /\ raised_in' = "graph_teq_group"
                                  /\ UNCHANGED <<teq_graph, file_path>>
                             ELSE /\ teq_graph' = teq.val
                                  /\ IF ~paths.ok
                                     THEN /\ pc' = "raised"
                                          /\ exc' = paths.val
                                          /\ raised_in' = "file_path_dict"
                                          /\ UNCHANGED file_path
                                     ELSE /\ file_path' = paths.val
                                          /\ pc' = "constructed"
                                          /\ UNCHANGED <<exc, raised_in>>
    /\ UNCHANGED <<callVars, data, fs, energyVars, reactionVars, odeVars>>

\* TomlReader.initial_conc()
InitialConc ==
    /\ pc = "constructed"
    /\ start_conc' = initial_conc(data, name_to_num)
    /\ pc' = "conc_done"
    /\ UNCHANGED <<callVars, exc, raised_in, tomlVars, energyVars, state_list_energy,
                   energy_differences, rate_constants, odeVars>>

\* Reactions.__init__(toml, rate_constant, state_list_energy)
ReactionsInit ==
    /\ pc = "conc_done"
    /\ \E e \in EnergyVectors(num_states(data)) :
          LET d == dEs(data, name_to_num, e)
          IN /\ state_list_energy' = e
             /\ IF d.ok
                THEN /\ energy_differences' = d.val
                     /\ pc' = "reactions_built"
                     /\ UNCHANGED <<exc, raised_in>>
                ELSE /\ pc' = "raised"
                     /\ exc' = d.val
                     /\ raised_in' = "dEs"
                     /\ UNCHANGED energy_differences
    /\ UNCHANGED <<callVars, tomlVars, energyVars, start_conc, rate_constants, odeVars>>

\* Reactions.rates(state_list_energy)
Rates ==
    /\ pc = "reactions_built"
    /\ LET r == rates(data, name_to_num, teq_graph, state_list_energy)
       IN IF r.ok
          THEN /\ rate_constants' = r.val
               /\ pc' = "rates_done"
               /\ UNCHANGED <<exc, raised_in>>
          ELSE /\ pc' = "raised"
               /\ exc' = r.val
               /\ raised_in' = "rates"
               /\ UNCHANGED rate_constants
    /\ UNCHANGED <<callVars, tomlVars, energyVars, start_conc, state_list_energy, energy_differences,
                   odeVars>>

Next ==
    \/ TomlReaderInit
    \/ InitialConc
    \/ ReactionsInit
    \/ Rates

Spec ==
    Init /\ [][Next]_vars

----------------------------------------------------------------------------
(* Inputs of the ODE right-hand side *)

\* state indices of the ODE system under test
OdeIdx ==
    {0, 1}

OdeTables ==
    {d \in SeqsUpTo(OdeIdx \X SeqsUpTo(OdeIdx, MaxFinals), Cardinality(OdeIdx)) :
        \A i, j \in 1..Len(d) : d[i][1] = d[j][1] => i = j}

InitOde ==
    /\ pc = "ode_ready"
    /\ exc = "none"
    /\ raised_in = "none"
    /\ data = <<>>
    /\ fs = <<>>
    /\ NoToml
    /\ NoEnergy
    /\ NoReactions
    /\ NoCall
    /\ concentration \in [OdeIdx -> 0..MaxOdeConc]
    /\ t \in 0..MaxTime
    /\ table \in OdeTables
    /\ rate_matrix \in [OdeIdx -> [OdeIdx -> 0..MaxRate]]
    /\ odes = <<>>

CallConstructOde ==
    /\ pc = "ode_ready"
    /\ odes' = construct_ode(concentration, t, table, rate_matrix)
    /\ pc' = "ode_done"
    /\ UNCHANGED <<callVars, exc, raised_in, tomlVars, energyVars, reactionVars, concentration, t,
                   table, rate_matrix>>

NextOde ==
    CallConstructOde

SpecOde ==
    InitOde /\ [][NextOde]_vars

----------------------------------------------------------------------------
(* The energies: TomlReader(path), State_Values(toml)                      *)

InitEnergy ==
    /\ pc = "start"
    /\ exc = "none"
    /\ raised_in = "none"
    /\ InitE(data, fs)
    /\ NoToml
    /\ NoEnergy
    /\ NoReactions
    /\ NoCall
    /\ NoOde

\* the outcome r of state_relative_list_hartree is stored or raised
StoreHartree(r) ==
    /\ reads' = r.reads
    /\ IF r.ok
       THEN /\ hartree_array' = r.val
            /\ pc' = "energy_done"
            /\ UNCHANGED <<exc, raised_in>>
       ELSE /\ pc' = "raised"
            /\ exc' = r.val
            /\ raised_in' = "state_relative_list_hartree"
            /\ UNCHANGED hartree_array

\* State_Values.__init__ up to self.hartree_array
StateValuesInit ==
    /\ pc = "constructed"
    /\ StoreHartree(state_relative_list_hartree(data, name_to_num, ref_name, file_path, fs))
    /\ UNCHANGED <<callVars, tomlVars, reactionVars, odeVars>>

\* the calls state_relative_list_hartree makes for a state, one at a time:
\* terachem_output(state) or terachem_output(state, substate_name = substate)
TerachemOutputCall ==
    /\ pc = "constructed"
    /\ \E state \in Range(DictKeys(name_to_num)) :
          \E substate_name \in IF substate_existence(data, state)
                                THEN Range(substate_list(data, state))
                                ELSE {"None"} :
              /\ args' = [state |-> state, substate_name |-> substate_name]
              /\ result' = terachem_output(data, name_to_num, file_path, fs, state,
                                            substate_name, FALSE)
    /\ pc' = "output_done"
    /\ UNCHANGED <<exc, raised_in, tomlVars, energyVars, reactionVars, odeVars>>

NextEnergy ==
    \/ TomlReaderInit
    \/ StateValuesInit
    \/ TerachemOutputCall

SpecEnergy ==
    InitEnergy /\ [][NextEnergy]_vars

----------------------------------------------------------------------------
(* Properties of construct_ode (checked under SpecOde) *)

\* number of times the table lists the entry (i, j)
EntryCount(tbl, i, j) ==
    IF DictHas(tbl, i) THEN Count(DictGet(tbl, i), j) ELSE 0

\* C1: for every concentration vector, table and rate matrix, the components
\* of the tuple returned by construct_ode sum to zero.
C1_ComponentsSumToZero ==
    pc = "ode_done" => SumSet(DOMAIN odes, odes) = 0

\* a result with a nonzero component, from a table that lists an edge in both
\* directions and a self-loop
C1_Witness ==
    /\ pc = "ode_done"
    /\ odes[0] # 0
    /\ EntryCount(table, 0, 1) > 0
    /\ EntryCount(table, 1, 0) > 0
    /\ EntryCount(table, 0, 0) > 0

\* inflow minus outflow of state s over the listed entries, each counted once
NetFlux(s) ==
    SumSet(OdeIdx, [i \in OdeIdx |->
        EntryCount(table, i, s) * rate_matrix[i][s] * concentration[i]])
    - SumSet(OdeIdx, [j \in OdeIdx |->
        EntryCount(table, s, j) * rate_matrix[s][j] * concentration[s]])

\* C2: component s of construct_ode's result is the sum over the entries
\* (i, s) of rates[i,s]*c[i] minus the sum over the entries (s, j) of
\* rates[s,j]*c[s], whatever the time argument is.
C2_ComponentIsNetFlux ==
    pc = "ode_done" => \A s \in OdeIdx : odes[s] = NetFlux(s)

\* a nonzero result at a nonzero time, from a table that lists an entry twice
C2_Witness ==
    /\ pc = "ode_done"
    /\ t # 0
    /\ odes[1] > 0
    /\ EntryCount(table, 0, 1) = 2

----------------------------------------------------------------------------
(* Properties of TomlReader and Reactions (checked under Spec) *)

Keys ==
    Range(data.order)

Idx ==
    0..(Len(data.order) - 1)

\* the index the configuration order gives a state
KeyNum(s) ==
    KeyIndex(data.order, s) - 1

Built ==
    pc \in {"constructed", "conc_done", "reactions_built", "rates_done"}

\* C3: rates() writes a rate constant into cell [init][final] for every
\* elementary reaction (init, final) of the reaction list.
C3_EveryReactionHasRate ==
    pc = "rates_done" =>
        \A k \in 1..Len(reactions_num) :
            rate_constants[reactions_num[k][1]][reactions_num[k][2]] # ZeroRate

\* C4: after rates() returns, rates[i][j] is 0 for every pair (i, j) that is
\* not an elementary reaction of the reaction list.
C4_ZeroOutsideReactions ==
    pc = "rates_done" =>
        \A i, j \in Idx :
            <<i, j>> \notin Range(reactions_num) => rate_constants[i][j] = ZeroRate

\* rates() has written the edge of a reactant and an edge below it, and the
\* reverse of a written edge is no reaction
C4_Witness ==
    /\ pc = "rates_done"
    /\ \E i, j \in Idx :
          /\ rate_constants[i][j] # ZeroRate
          /\ rate_constants[i][j].T.num # 0
          /\ <<j, i>> \notin Range(reactions_num)
    /\ \E i, j \in Idx :
          /\ rate_constants[i][j] # ZeroRate
          /\ rate_constants[i][j].T = Temperature(T_NEQ, 0, 1)

\* number of entries of the configuration that stand for the reaction i -> f
DeclaredReactions(i, f) ==
    Cardinality({n \in Keys : data.ts[i][n].present /\ data.ts[i][n].final = KeyNum(f)})
    + (IF data.final[i][f].present THEN 1 ELSE 0)

\* C5: reaction_list_name contains exactly one pair (init, final) for each
\* transition-state entry init -> ts with declared final `final`, exactly one
\* pair (init, next) for each direct entry init -> next, and no other pair.
C5_ReactionListMatchesEntries ==
    pc # "start" =>
        /\ raised_in # "reaction_list_name"
        /\ Range(reactions_name) \subseteq Keys \X Keys
        /\ \A i, f \in Keys : Count(reactions_name, <<i, f>>) = DeclaredReactions(i, f)

\* C6: dEs holds E(final) - E(init) in the cell of every direct entry,
\* E(ts) - E(init) in the cell of every transition-state path and 0 elsewhere.
C6_EnergyDifferences ==
    pc \in {"reactions_built", "rates_done"} =>
        \A i, f \in Keys :
            LET cell == energy_differences[KeyNum(i)][KeyNum(f)]
                via == {n \in Keys : data.ts[i][n].present /\ data.ts[i][n].final = KeyNum(f)}
            IN /\ data.final[i][f].present =>
                     cell = state_list_energy[KeyNum(f)] - state_list_energy[KeyNum(i)]
               /\ (~data.final[i][f].present /\ via # {}) =>
                     \E n \in via :
                        cell = state_list_energy[KeyNum(n)] - state_list_energy[KeyNum(i)]
               /\ (~data.final[i][f].present /\ via = {}) => cell = 0

\* C8: name_to_num maps the N state names one-to-one onto 0..N-1 in the order
\* of the configuration, and reverse_name_to_num is its inverse.
C8_NameNumBijection ==
    pc # "start" =>
        /\ Len(name_to_num) = Len(data.order)
        /\ \A k \in 1..Len(data.order) : name_to_num[k] = <<data.order[k], k - 1>>
        /\ \A s \in Keys :
              /\ DictHas(reverse_name_to_num, DictGet(name_to_num, s))
              /\ DictGet(reverse_name_to_num, DictGet(name_to_num, s)) = s
        /\ \A n \in Idx :
              /\ DictHas(reverse_name_to_num, n)
              /\ DictHas(name_to_num, DictGet(reverse_name_to_num, n))
              /\ DictGet(name_to_num, DictGet(reverse_name_to_num, n)) = n

\* a reader built on four states listed in an order that is not alphabetical
C8_Witness ==
    /\ pc = "constructed"
    /\ data.order = <<"C", "A", "D", "B">>
    /\ DictGet(name_to_num, "A") = 1
    /\ DictGet(reverse_name_to_num, 3) = "B"

\* C9: initial_conc()[n] and vis_name_list[n] belong to the state with index
\* n, and reactions_num[k] is the pair of indices of reactions_name[k].
C9_IndexAlignment ==
    pc = "conc_done" =>
        /\ \A s \in Keys :
              /\ start_conc[DictGet(name_to_num, s)] = data.conc[s]
              /\ vis_name_list[DictGet(name_to_num, s)] = data.visualize_name[s]
        /\ Len(reactions_num) = Len(reactions_name)
        /\ \A k \in 1..Len(reactions_name) :
              reactions_num[k] = <<DictGet(name_to_num, reactions_name[k][1]),
                                   DictGet(name_to_num, reactions_name[k][2])>>

\* four states out of alphabetical order, with different concentrations and
\* three reactions
C9_Witness ==
    /\ pc = "conc_done"
    /\ data.order = <<"D", "B", "A", "C">>
    /\ data.conc["A"] = 2 /\ data.conc["B"] = 1 /\ data.conc["D"] = 0
    /\ start_conc[2] = 2
    /\ Len(reactions_num) = 3

\* the states reachable from the states of S along the edges (S included)
RECURSIVE Reach(_, _)
Reach(edges, S) ==
    LET more == S \cup {e[2] : e \in {x \in edges : x[1] \in S}}
    IN IF more = S THEN S ELSE Reach(edges, more)

\* C10: for every reactant r and direct successor p of r, the group
\* teq_graph[r][p] holds, as a set, exactly the edges whose source is p or is
\* reachable from p, and the edge (r, p) is not among them.
C10_DescendantGroups ==
    Built =>
        \A r \in Range(reactant_names) : \A p \in Keys :
            <<r, p>> \in Range(reactions_name) =>
                LET group == Range(GroupOf(DictGet(teq_graph, r), p))
                IN /\ group = {e \in Range(reactions_name) :
                                  e[1] \in Reach(Range(reactions_name), {p})}
                   /\ <<r, p>> \notin group

\* a group that holds an edge two steps below the successor
C10_Witness ==
    /\ pc = "constructed"
    /\ \E r \in Range(reactant_names) : \E p \in Keys :
          /\ <<r, p>> \in Range(reactions_name)
          /\ \E e \in Range(GroupOf(DictGet(teq_graph, r), p)) :
                e[1] # p /\ <<p, e[1]>> \in Range(reactions_name)

----------------------------------------------------------------------------
(* Properties of State_Values (checked under SpecEnergy) *)

EnergyRun ==
    raised_in = "state_relative_list_hartree" \/ pc = "energy_done"

\* C7: the relative energy stored at the index of the reference state is
\* exactly 0, and no calculation output is opened while the reference state
\* itself is being resolved.
C7_ReferenceIsZeroUnread ==
    EnergyRun =>
        /\ \A k \in 1..Len(reads) : reads[k].state # ref_name
        /\ pc = "energy_done" =>
               /\ DictHas(name_to_num, ref_name)
               /\ hartree_array[DictGet(name_to_num, ref_name)] = 0

\* an array with a nonzero entry was stored: the output of the reference was
\* opened for another state, and the cell of the reference is 0
C7_Witness ==
    /\ pc = "energy_done"
    /\ DictHas(name_to_num, ref_name)
    /\ hartree_array[DictGet(name_to_num, ref_name)] = 0
    /\ \E k \in 1..Len(reads) : reads[k].path[1] = ref_name
    /\ \E i \in DOMAIN hartree_array : hartree_array[i] # 0

----------------------------------------------------------------------------
(* __main__.py: the end of main(), from the rate matrix to odeint          *)

\* nx.to_dict_of_lists of the undirected graph with every state as a node:
\* each state is a key, an edge is listed at both of its ends
to_dict_of_lists(nodes, edges) ==
    [k \in 1..Len(nodes) |->
        <<nodes[k],
          SelectSeq(nodes, LAMBDA n : <<nodes[k], n>> \in edges \/ <<n, nodes[k]>> \in edges)>>]

MainNodes ==
    <<0, 1>>

\* rate matrices with entries of both signs
SignedRates ==
    [OdeIdx -> [OdeIdx -> (0 - MaxRate)..MaxRate]]

InitMain ==
    /\ pc = "main_rates"
    /\ exc = "none"
    /\ raised_in = "none"
    /\ data = <<>>
    /\ fs = <<>>
    /\ NoToml
    /\ NoEnergy
    /\ NoReactions
    /\ NoCall
    /\ concentration \in [OdeIdx -> 0..MaxOdeConc]
    /\ t = 0
    /\ \E edges \in SUBSET {<<0, 1>>, <<0, 0>>, <<1, 1>>} :
          table = to_dict_of_lists(MainNodes, edges)
    /\ rate_matrix \in SignedRates
    /\ odes = <<>>

\* func = partial(construct_ode, table=table, rates=rates); odeint(func,
\* start_conc, time): the solver evaluates func at the start point first
MainOdeint ==
    /\ pc = "main_rates"
    /\ odes' = construct_ode(concentration, t, table, rate_matrix)
    /\ pc' = "integrating"
    /\ UNCHANGED <<callVars, exc, raised_in, tomlVars, energyVars, reactionVars, concentration, t,
                   table, rate_matrix>>

NextMain ==
    MainOdeint

SpecMain ==
    InitMain /\ [][NextMain]_vars

----------------------------------------------------------------------------
(* Properties of main() (checked under SpecMain) *)

NegativeRate ==
    \E i, j \in OdeIdx : rate_matrix[i][j] < 0

\* C11: if any entry of the rate matrix is negative the run fails with a
\* domain error before integration starts: the right-hand side is never
\* evaluated with a negative rate constant.
C11_NegativeRateRejected ==
    (pc # "main_rates" /\ NegativeRate) =>
        /\ pc = "raised"
        /\ exc = "DomainError"
        /\ odes = <<>>

----------------------------------------------------------------------------
(* rate_constants.py: AdhocRelaxation.compute_rate evaluated in floating   *)
(* point.  A float is its sign and its class: "zero", "finite", "inf" or   *)
(* "nan".  The numerator -(n_modes * dE) is a numpy.float64 when dE comes  *)
(* out of a numpy array, as in Reactions.rates, and a Python float when    *)
(* the caller passes Python numbers.                                       *)

MaxDE ==
    2

MaxModes ==
    2

Sign(x) ==
    IF x > 0 THEN 1 ELSE IF x < 0 THEN 0 - 1 ELSE 0

\* -(n_modes * dE) / ((3 * n_atoms - 6) * R_GAS * T): Python raises on a zero
\* divisor, numpy gives an infinity or NaN
relaxation_exponent(dE, n_modes, n_atoms, T, numpy) ==
    LET num == 0 - (n_modes * dE)
        den == (3 * n_atoms - 6) * T
    IN IF den # 0 THEN Ret([sign |-> Sign(num) * Sign(den),
                           class |-> IF num = 0 THEN "zero" ELSE "finite"])
       ELSE IF ~numpy THEN Raise("ZeroDivisionError")
       ELSE IF num = 0 THEN Ret([sign |-> 0, class |-> "nan"])
       ELSE Ret([sign |-> Sign(num) * Sign(T), class |-> "inf"])

\* K_BOLTZ * T / H_PLANCK * np.exp(x)
relaxation_prefactor_times_exp(x, T) ==
    IF ~x.ok THEN x
    ELSE IF x.val.class = "nan" THEN Ret([sign |-> 0, class |-> "nan"])
    ELSE IF x.val.class = "inf" /\ x.val.sign < 0 THEN Ret([sign |-> 0, class |-> "zero"])
    ELSE IF x.val.class = "inf" THEN Ret([sign |-> Sign(T), class |-> "inf"])
    ELSE Ret([sign |-> Sign(T), class |-> "finite"])

AdhocRelaxation_rate_value(dE, n_modes, n_atoms, T, numpy) ==
    relaxation_prefactor_times_exp(relaxation_exponent(dE, n_modes, n_atoms, T, numpy), T)

InitRate ==
    /\ pc = "rate_call"
    /\ exc = "none"
    /\ raised_in = "none"
    /\ data = <<>>
    /\ fs = <<>>
    /\ NoToml
    /\ NoEnergy
    /\ NoReactions
    /\ NoOde
    /\ args \in [dE : (0 - MaxDE)..MaxDE, n_modes : 0..MaxModes, n_atoms : 2..MaxAtoms,
                 T : {0 - 1, 1}, numpy : BOOLEAN]
    /\ result = <<>>

\* relaxation_theory.compute_rate(dE, n_modes, n_atoms, T)
CallComputeRate ==
    /\ pc = "rate_call"
    /\ result' = AdhocRelaxation_rate_value(args.dE, args.n_modes, args.n_atoms, args.T,
                                            args.numpy)
    /\ pc' = "rate_done"
    /\ UNCHANGED <<args, exc, raised_in, tomlVars, energyVars, reactionVars, odeVars>>

NextRate ==
    CallComputeRate

SpecRate ==
    InitRate /\ [][NextRate]_vars

----------------------------------------------------------------------------
(* Properties of AdhocRelaxation.compute_rate (checked under SpecRate) *)

\* C12: compute_rate with n_atoms = 2 fails with a domain error for every dE,
\* n_modes and T: it neither divides by zero nor returns a rate.
C12_TwoAtomsRejected ==
    (pc = "rate_done" /\ args.n_atoms = 2) =>
        /\ ~result.ok
        /\ result.val = "DomainError"

----------------------------------------------------------------------------
(* ode_builder.py: general_ode.  The table maps an init to one final.      *)

\* rates[init, final] * c[init] - rates[final, init] * c[final]
net_flux(init, final, rmat, cvec) ==
    rmat[init][final] * cvec[init] - rmat[final][init] * cvec[final]

\* general_ode's loop without the reverse flux
RECURSIVE general_ode_items_NoReverse(_, _, _, _)
general_ode_items_NoReverse(acc, items, rmat, cvec) ==
    IF items = <<>> THEN acc
    ELSE general_ode_items_NoReverse(
             [[acc EXCEPT ![Head(items)[1]] = @ - rmat[Head(items)[1]][Head(items)[2]]
                                                    * cvec[Head(items)[1]]]
                  EXCEPT ![Head(items)[2]] = @ + rmat[Head(items)[1]][Head(items)[2]]
                                                    * cvec[Head(items)[1]]],
             Tail(items), rmat, cvec)

\* for init, final in table.items()
RECURSIVE general_ode_items(_, _, _, _)
general_ode_items(acc, items, rmat, cvec) ==
    IF items = <<>> THEN acc
    ELSE general_ode_items(
             [[acc EXCEPT ![Head(items)[1]] =
                       @ - net_flux(Head(items)[1], Head(items)[2], rmat, cvec)]
                  EXCEPT ![Head(items)[2]] =
                       @ + net_flux(Head(items)[1], Head(items)[2], rmat, cvec)],
             Tail(items), rmat, cvec)

general_ode(cvec, time, tbl, rmat) ==
    general_ode_items([i \in DOMAIN cvec |-> 0], tbl, rmat, cvec)

\* dicts init -> final: no key twice
SingleFinalTables ==
    {d \in SeqsUpTo(OdeIdx \X OdeIdx, Cardinality(OdeIdx)) :
        \A i, j \in 1..Len(d) : d[i][1] = d[j][1] => i = j}

InitGeneralOde ==
    /\ pc = "general_ready"
    /\ exc = "none"
    /\ raised_in = "none"
    /\ data = <<>>
    /\ fs = <<>>
    /\ NoToml
    /\ NoEnergy
    /\ NoReactions
    /\ NoCall
    /\ concentration \in [OdeIdx -> 0..MaxConc]
    /\ t \in 0..MaxTime
    /\ table \in SingleFinalTables
    /\ rate_matrix \in [OdeIdx -> [OdeIdx -> 0..MaxRate]]
    /\ odes = <<>>

CallGeneralOde ==
    /\ pc = "general_ready"
    /\ odes' = general_ode(concentration, t, table, rate_matrix)
    /\ pc' = "general_done"
    /\ UNCHANGED <<callVars, exc, raised_in, tomlVars, energyVars, reactionVars,
                   concentration, t, table, rate_matrix>>

NextGeneralOde ==
    CallGeneralOde

SpecGeneralOde ==
    InitGeneralOde /\ [][NextGeneralOde]_vars

----------------------------------------------------------------------------
(* Properties of general_ode (checked under SpecGeneralOde) *)

\* what the entries of the table contribute to component s
EntryFlux(s) ==
    SumSet(1..Len(table), [k \in 1..Len(table) |->
        (IF table[k][2] = s THEN 1 ELSE 0) *
            net_flux(table[k][1], table[k][2], rate_matrix, concentration)
        - (IF table[k][1] = s THEN 1 ELSE 0) *
            net_flux(table[k][1], table[k][2], rate_matrix, concentration)])

\* C13: for a table that maps each init to a single final, general_ode takes
\* the net flux rates[init,final]*c[init] - rates[final,init]*c[final] of
\* every entry from component init and adds it to component final; the
\* components sum to zero and a state in no entry has derivative 0.
C13_GeneralOdeNetFlux ==
    pc = "general_done" =>
        /\ \A s \in OdeIdx : odes[s] = EntryFlux(s)
        /\ SumSet(DOMAIN odes, odes) = 0
        /\ \A s \in OdeIdx :
              (\A k \in 1..Len(table) : table[k][1] # s /\ table[k][2] # s) => odes[s] = 0

\* the reverse flux outweighs the forward flux of the single entry 0 -> 1
C13_Witness ==
    /\ pc = "general_done"
    /\ table = <<<<0, 1>>>>
    /\ rate_matrix[0][1] * concentration[0] > 0
    /\ odes[0] > 0
    /\ odes[1] < 0

----------------------------------------------------------------------------
(* additional_functions.py: product_ratio, expfitting, rate_dict.          *)
(*                                                                         *)
(* conc is the array of odeint: conc[row][state], rows 0..AnalysisRows-1.  *)
(* A quotient is kept as the pair of its numerator and denominator; the    *)
(* entries of conc are numpy.float64, so a zero divisor gives nan or inf.  *)
(* curve_fit is scipy's: whether it converges is an input of the model,    *)
(* fit[i] being Ret(k) with the fitted exponent k or                       *)
(* Raise("RuntimeError") for group i.                                      *)

AnalysisRows ==
    2

AnalysisStates ==
    {0, 1, 2}

\* conc[row][k] summed over the entries k of a list
RECURSIVE SumOver(_, _)
SumOver(row, list) ==
    IF list = <<>> THEN 0 ELSE row[Head(list)] + SumOver(row, Tail(list))

\* for i in range(len(product_list_name)), with = in place of +=
RECURSIVE product_ratio_names_Overwrite(_, _, _, _, _)
product_ratio_names_Overwrite(row, names, nums, i, frac_dict) ==
    IF i > Len(names) THEN frac_dict
    ELSE product_ratio_names_Overwrite(row, names, nums, i + 1,
             DictSet(frac_dict, names[i], row[nums[i]]))

\* for i in range(len(product_list_name)): frac_dict[key] (+)= conc[spacing-1][num]
RECURSIVE product_ratio_names(_, _, _, _, _)
product_ratio_names(row, names, nums, i, frac_dict) ==
    IF i > Len(names) THEN frac_dict
    ELSE product_ratio_names(row, names, nums, i + 1,
             IF DictHas(frac_dict, names[i])
             THEN DictSet(frac_dict, names[i], DictGet(frac_dict, names[i]) + row[nums[i]])
             ELSE DictSet(frac_dict, names[i], row[nums[i]]))

\* for item in frac_dict.values(): sum += item
RECURSIVE product_ratio_sum(_)
product_ratio_sum(frac_dict) ==
    IF frac_dict = <<>> THEN 0
    ELSE Head(frac_dict)[2] + product_ratio_sum(Tail(frac_dict))

\* item / sum * 100
Percent(item, sum) ==
    IF sum # 0 THEN [class |-> "finite", num |-> item * 100, den |-> sum]
    ELSE IF item = 0 THEN [class |-> "nan", num |-> 0, den |-> 0]
    ELSE [class |-> "inf", num |-> Sign(item), den |-> 0]

\* for key, item in frac_dict.items(): frac_dict[key] = item / sum * 100
product_ratio_percent(frac_dict, sum) ==
    [k \in 1..Len(frac_dict) |-> <<frac_dict[k][1], Percent(frac_dict[k][2], sum)>>]

product_ratio_normalise(frac_dict) ==
    product_ratio_percent(frac_dict, product_ratio_sum(frac_dict))

product_ratio(spacing, conc_array, names, nums) ==
    Ret(product_ratio_normalise(
            product_ratio_names(conc_array[spacing - 1], names, nums, 1, <<>>)))

\* 1 / abs(k) * 10 ** (15)
time_constant(k) ==
    [num |-> 1, den |-> IF k < 0 THEN 0 - k ELSE k, pow10 |-> 15]

\* the body of expfitting's loop for group i (label "S" + str(i)): the
\* entry of expfitting_result, and y_fit_list extended when the fit converged
expfitting_group(acc, label, fit_i, fraction) ==
    IF fit_i.ok
    THEN [expfitting_result |->
              Append(acc.expfitting_result,
                     <<label, <<<<"Time constant", time_constant(fit_i.val)>>,
                                <<"Fraction", [num |-> fraction, den |-> 1, pow10 |-> 0]>>>>>>),
          y_fit_list |-> Append(acc.y_fit_list, label)]
    ELSE [expfitting_result |->
              Append(acc.expfitting_result,
                     <<label, <<<<"Fraction", [num |-> fraction, den |-> 1, pow10 |-> 0]>>>>>>),
          y_fit_list |-> acc.y_fit_list]

\* for i in range(len(spin_list_dict))
RECURSIVE expfitting_groups(_, _, _, _, _)
expfitting_groups(spin_list_dict, i, fit, last_row, acc) ==
    IF i > Len(spin_list_dict) THEN acc
    ELSE expfitting_groups(spin_list_dict, i + 1, fit, last_row,
             expfitting_group(acc, <<"S", i - 1>>, fit[i],
                              SumOver(last_row, spin_list_dict[i])))

\* the plots after the loop and the end of the function: plt.plot(x_axis,
\* y_fit_transpose) raises ValueError when the two first dimensions differ
\* (no fitted curve at all, for a nonempty x_axis); the function has no
\* return statement
expfitting_plots(acc, ntime) ==
    IF acc.y_fit_list = <<>> /\ ntime # 0
    THEN [ok |-> FALSE, val |-> "ValueError", expfitting_result |-> acc.expfitting_result]
    ELSE [ok |-> TRUE, val |-> "None", expfitting_result |-> acc.expfitting_result]

expfitting(ntime, spin_list_dict, conc_array, fit) ==
    expfitting_plots(
        expfitting_groups(spin_list_dict, 1, fit, conc_array[ntime - 1],
                          [expfitting_result |-> <<>>, y_fit_list |-> <<>>]),
        ntime)

\* for i ...: for j ...: if rates[i][j] != 0: rate_dict[name_i] = {name_j: rates[i][j]}
RECURSIVE rate_dict_pairs(_, _, _, _)
rate_dict_pairs(rmat, names, pairs, dict) ==
    IF pairs = <<>> THEN dict
    ELSE rate_dict_pairs(rmat, names, Tail(pairs),
             IF rmat[Head(pairs)[1]][Head(pairs)[2]] # 0
             THEN DictSet(dict, names[Head(pairs)[1] + 1],
                          <<<<names[Head(pairs)[2] + 1],
                              rmat[Head(pairs)[1]][Head(pairs)[2]]>>>>)
             ELSE dict)

rate_dict(rmat, names) ==
    Ret(rate_dict_pairs(rmat, names, LoopPairs([k \in 1..Len(names) |-> k - 1]), <<>>))

\* inputs of the three functions
ConcArrays ==
    [0..(AnalysisRows - 1) -> [AnalysisStates -> 0..MaxOdeConc]]

ProductNames ==
    {"P", "Q"}

SpinLists ==
    {<<0>>, <<2>>, <<0, 1>>, <<1, 2>>}

FitOutcomes ==
    {Raise("RuntimeError"), Ret(0 - 2), Ret(1)}

AnalysisNames ==
    <<"A", "B", "C">>

InitAnalysis ==
    /\ exc = "none"
    /\ raised_in = "none"
    /\ data = <<>>
    /\ fs = <<>>
    /\ NoToml
    /\ NoEnergy
    /\ NoReactions
    /\ NoOde
    /\ result = <<>>
    /\ \/ /\ pc = "ratio_call"
          /\ \E nums \in InjectiveSeqs(AnalysisStates) :
                args \in [spacing : 1..AnalysisRows, conc : ConcArrays,
                          product_list_name : [1..Len(nums) -> ProductNames],
                          product_list_num : {nums}]
       \/ /\ pc = "fit_call"
          /\ \E groups \in SeqsUpTo(SpinLists, 2) \ {<<>>} :
                args \in [ntime : {AnalysisRows}, conc : ConcArrays,
                          spin_list_dict : {groups},
                          fit : [1..Len(groups) -> FitOutcomes]]
       \/ /\ pc = "rate_dict_call"
          /\ args \in [rates : [AnalysisStates -> [AnalysisStates -> 0..MaxRate]],
                       visualize_state_list_name : {AnalysisNames}]

CallProductRatio ==
    /\ pc = "ratio_call"
    /\ result' = product_ratio(args.spacing, args.conc, args.product_list_name,
                               args.product_list_num)
    /\ pc' = "ratio_done"
    /\ UNCHANGED <<args, exc, raised_in, tomlVars, energyVars, reactionVars, odeVars>>

CallExpfitting ==
    /\ pc = "fit_call"
    /\ result' = expfitting(args.ntime, args.spin_list_dict, args.conc, args.fit)
    /\ pc' = "fit_done"
    /\ UNCHANGED <<args, exc, raised_in, tomlVars, energyVars, reactionVars, odeVars>>

CallRateDict ==
    /\ pc = "rate_dict_call"
    /\ result' = rate_dict(args.rates, args.visualize_state_list_name)
    /\ pc' = "rate_dict_done"
    /\ UNCHANGED <<args, exc, raised_in, tomlVars, energyVars, reactionVars, odeVars>>

NextAnalysis ==
    \/ CallProductRatio
    \/ CallExpfitting
    \/ CallRateDict

SpecAnalysis ==
    InitAnalysis /\ [][NextAnalysis]_vars

----------------------------------------------------------------------------
(* Properties of product_ratio, expfitting and rate_dict (checked under    *)
(* SpecAnalysis)                                                           *)

\* C14: product_ratio returns one entry per distinct product name; with a
\* nonzero total over the listed product states, the value of a name is 100
\* times the sum of the concentrations, in row spacing-1, of the product
\* states carrying that name, divided by that total, and the percentages sum
\* to 100.
C14_ProductRatio ==
    pc = "ratio_done" =>
        /\ result.ok
        /\ Len(result.val) = Cardinality(Range(args.product_list_name))
        /\ \A n \in Range(args.product_list_name) : DictHas(result.val, n)
        /\ SumOver(args.conc[args.spacing - 1], args.product_list_num) # 0 =>
              /\ \A k \in 1..Len(result.val) :
                    result.val[k][2] =
                        [class |-> "finite",
                         num |-> 100 * SumSet({i \in 1..Len(args.product_list_num) :
                                                  args.product_list_name[i] = result.val[k][1]},
                                              [i \in 1..Len(args.product_list_num) |->
                                                  args.conc[args.spacing - 1][args.product_list_num[i]]]),
                         den |-> SumOver(args.conc[args.spacing - 1], args.product_list_num)]
              /\ SumSet(1..Len(result.val), [k \in 1..Len(result.val) |-> result.val[k][2].num])
                    = 100 * SumOver(args.conc[args.spacing - 1], args.product_list_num)

\* two product states share the name "P", both populated in the last row and
\* differently in the first, a third state is "Q"
C14_Witness ==
    /\ pc = "ratio_done"
    /\ args.spacing = 2
    /\ args.product_list_name = <<"P", "Q", "P">>
    /\ args.product_list_num = <<0, 1, 2>>
    /\ args.conc[1][0] > 0
    /\ args.conc[1][2] > 0
    /\ args.conc[1][1] > 0
    /\ args.conc[0] # args.conc[1]
    /\ Len(result.val) = 2

\* the entry of group i (0-based) in expfitting_result
GroupEntry(i) ==
    DictGet(result.expfitting_result, <<"S", i>>)

\* C15: if the curve fit does not converge for a spin group, expfitting does
\* not abort: it runs to completion with an entry for every group, and the
\* entry of the failed group carries its fraction and no time constant.
C15_FitFailureDoesNotAbort ==
    (pc = "fit_done" /\ \E i \in 1..Len(args.fit) : ~args.fit[i].ok) =>
        /\ result.ok
        /\ Len(result.expfitting_result) = Len(args.spin_list_dict)
        /\ \A i \in 1..Len(args.fit) :
              ~args.fit[i].ok =>
                  /\ DictHas(GroupEntry(i - 1), "Fraction")
                  /\ ~DictHas(GroupEntry(i - 1), "Time constant")

\* C16: expfitting returns to its caller a mapping with one entry per spin
\* group, holding the time constant of the group when its fit converged and
\* its fraction, the sum of the concentrations of the states of the group at
\* the last time point.
C16_ExpfittingReturnsMapping ==
    (pc = "fit_done" /\ result.ok) =>
        /\ result.val # "None"
        /\ Len(result.expfitting_result) = Len(args.spin_list_dict)
        /\ \A i \in 1..Len(args.spin_list_dict) :
              /\ DictGet(GroupEntry(i - 1), "Fraction").num
                     = SumOver(args.conc[args.ntime - 1], args.spin_list_dict[i])
              /\ args.fit[i].ok => DictHas(GroupEntry(i - 1), "Time constant")

\* C17: rate_dict returns a nested mapping init name -> final name -> k
\* with an entry for every pair (i, j) with rates[i][j] != 0, also when an
\* initial state has several nonzero outgoing rates.
C17_RateDictHoldsEveryRate ==
    pc = "rate_dict_done" =>
        \A i, j \in AnalysisStates :
            args.rates[i][j] # 0 =>
                /\ DictHas(result.val, args.visualize_state_list_name[i + 1])
                /\ DictHas(DictGet(result.val, args.visualize_state_list_name[i + 1]),
                           args.visualize_state_list_name[j + 1])
                /\ DictGet(DictGet(result.val, args.visualize_state_list_name[i + 1]),
                           args.visualize_state_list_name[j + 1]) = args.rates[i][j]

----------------------------------------------------------------------------
(* Properties of terachem_output and of the substates (checked under       *)
(* SpecEnergy)                                                             *)

\* the selector [from, to] of a state
SpinOf(state) ==
    target_spin_state(data, state).val

\* what the output of a folder holds for a theory level and a selector
RawEnergy(folder, level, spin) ==
    energy_value(fs.files[OutputPath(folder, level)], level, spin).val

\* every folder and output is there and whole, and has the roots asked for
Intact ==
    \E n \in 1..MaxRoots :
        /\ fs = MkDir(Range(OrderE) \cup Range(data.substate["C"]), n, "A", "none")
        /\ \A i \in 1..2 : SpinOf("C")[i] < n

RECURSIVE SubstateSum(_)
SubstateSum(substates) ==
    IF substates = <<>> THEN 0
    ELSE RawEnergy(Head(substates), DictGet(data.substate_theory, Head(substates)),
                   SpinOf("C"))
         + SubstateSum(Tail(substates))

\* C18: for a state that is not the reference and declares substates (here
\* "C", as soon as the run has ended on whole outputs), the relative energy
\* is the sum of the raw energies of its substates minus the raw energy of
\* the reference, taken once.
C18_SubstateSumMinusReference ==
    (/\ pc \in {"raised", "energy_done"}
     /\ ref_name \notin {"C", "None"}
     /\ substate_existence(data, "C")
     /\ Intact) =>
        /\ pc = "energy_done"
        /\ hartree_array[DictGet(name_to_num, "C")]
               = SubstateSum(substate_list(data, "C"))
                 - RawEnergy(ref_name,
                             IF data.theory_level["C"] = "excited" THEN "excited"
                             ELSE "ground",
                             SpinOf(ref_name))

\* a call terachem_output(state) for a state of level "excited" that is not
\* the reference and has no substates
ExcitedCall ==
    /\ pc = "output_done"
    /\ args.substate_name = "None"
    /\ args.state # ref_name
    /\ data.theory_level[args.state] = "excited"

\* C19: for an excited-level state with the selector [from, to], the raw
\* energy is the average of the root energies of all channels from..to; for
\* a single index s it is the energy of root s.
C19_AverageOverAllChannels ==
    (ExcitedCall /\ result.ok /\ result.val # NaN) =>
        (SpinOf(args.state)[2] - SpinOf(args.state)[1] + 1) * result.val
            = SumSet((SpinOf(args.state)[1] + 1)..(SpinOf(args.state)[2] + 1),
                     fs.files[<<args.state, "sp">>].roots)

\* C20: when the channel asked for is not among the roots of the output
\* (an output without a root table included), resolving the energy of an
\* excited-level state fails: no energy, no NaN, no value of another root.
C20_MissingChannelFails ==
    (/\ ExcitedCall
     /\ <<args.state, "sp">> \in DOMAIN fs.files
     /\ \/ ~fs.files[<<args.state, "sp">>].has_roots
        \/ \E i \in 1..2 :
              SpinOf(args.state)[i] >= Len(fs.files[<<args.state, "sp">>].roots)) =>
        ~result.ok

----------------------------------------------------------------------------
(* io/terachem.py: TeraChemOutputReader.__init__ and _check_finish.        *)
(*                                                                         *)
(* The lines of a file are kept as a sequence of flags: lines[k] says      *)
(* whether line k holds the text " Job finished:".                         *)

FINISH_WINDOW ==
    200

\* self.lines[-i]
LineFromEnd(lines, i) ==
    lines[Len(lines) + 1 - i]

\* max_lines = min(200, len(self.lines)); for i in range(1, max_lines)
check_finish(lines) ==
    \E i \in 1..((IF Len(lines) < FINISH_WINDOW THEN Len(lines) ELSE FINISH_WINDOW) - 1) :
        LineFromEnd(lines, i)

\* TeraChemOutputReader(fname) for a file that exists
TeraChemOutputReader_init(out_suffix, lines) ==
    IF ~out_suffix THEN Raise("AssertionError")
    ELSE IF ~check_finish(lines) THEN Raise("AssertionError")
    ELSE Ret("TeraChemOutputReader")

\* lengths of the files, and the places (counted from the end) a marker can be at
FileLengths ==
    {1, 2, 3, FINISH_WINDOW - 1, FINISH_WINDOW, FINISH_WINDOW + 1}

MarkerPlaces ==
    {1, 2, 3, FINISH_WINDOW - 1, FINISH_WINDOW, FINISH_WINDOW + 1}

InitReader ==
    /\ pc = "reader_call"
    /\ exc = "none"
    /\ raised_in = "none"
    /\ data = <<>>
    /\ fs = <<>>
    /\ NoToml
    /\ NoEnergy
    /\ NoReactions
    /\ NoOde
    /\ result = <<>>
    /\ \E n \in FileLengths, marks \in SUBSET MarkerPlaces, suffix \in BOOLEAN :
          /\ \A m \in marks : m <= n
          /\ args = [out_suffix |-> suffix, lines |-> [k \in 1..n |-> (n + 1 - k) \in marks]]

ConstructReader ==
    /\ pc = "reader_call"
    /\ result' = TeraChemOutputReader_init(args.out_suffix, args.lines)
    /\ pc' = "reader_done"
    /\ UNCHANGED <<args, exc, raised_in, tomlVars, energyVars, reactionVars, odeVars>>

NextReader ==
    ConstructReader

SpecReader ==
    InitReader /\ [][NextReader]_vars

----------------------------------------------------------------------------
(* Properties of TeraChemOutputReader (checked under SpecReader) *)

\* C21: constructing the reader on an output file succeeds if and only if
\* " Job finished:" occurs in one of the last 200 lines of the file (in any
\* line of a shorter file); otherwise it fails with an assertion error.
C21_FinishedIffMarkerInLast200 ==
    (pc = "reader_done" /\ args.out_suffix) =>
        /\ result.ok <=>
              \E i \in 1..Len(args.lines) : i <= FINISH_WINDOW /\ LineFromEnd(args.lines, i)
        /\ ~result.ok => result.val = "AssertionError"

----------------------------------------------------------------------------
(* Properties of the transition-state entries (checked under Spec) *)

\* the run has come to its end: rates() has returned or a call has raised
Ended ==
    pc \in {"raised", "rates_done"}

\* the configuration has the entry init -> ts with the declared final f
TsPath(init, ts, f) ==
    data.ts[init][ts].present /\ data.ts[init][ts].final = KeyNum(f)

\* the configuration has the direct vibrational-relaxation entry init -> f
Relaxation(init, f) ==
    /\ data.final[init][f].present
    /\ data.final[init][f].reaction_type = "vibrational relaxation"

\* a reactant has a successor with a successor: some group is not empty
SomeGroup ==
    \E r, p, q \in Keys :
        /\ data.condition[r] = "reactant"
        /\ data.final[r][p].present
        /\ data.final[p][q].present

\* C23: with a transition-state entry init -> ts -> f and a direct
\* vibrational-relaxation entry init -> f, dEs raises no error and leaves in
\* cell [init][f] the value of the entry met last in index order: the ts
\* entry is met at the index of ts, the direct entry at the index of f.
C23_LastWriteWinsInDEs ==
    \A init, ts, f \in Keys :
        (Ended /\ TsPath(init, ts, f) /\ Relaxation(init, f)) =>
            /\ pc = "rates_done"
            /\ energy_differences[KeyNum(init)][KeyNum(f)]
                   = IF KeyNum(ts) > KeyNum(f)
                     THEN state_list_energy[KeyNum(ts)] - state_list_energy[KeyNum(init)]
                     ELSE state_list_energy[KeyNum(f)] - state_list_energy[KeyNum(init)]

\* C24: when the pair (init, next) of a non-reactant init has a
\* transition-state entry and is a direct vibrational-relaxation edge of a
\* group, rates() runs the transition-state branch and the relaxation branch
\* for it: the cell of the declared final holds an Eyring rate, the cell of
\* next a relaxation rate, and the later write, the relaxation, remains when
\* the two cells are one.
C24_BothBranchesRun ==
    \A init, next, f \in Keys :
        (/\ Ended
         /\ data.condition[init] # "reactant"
         /\ SomeGroup
         /\ TsPath(init, next, f)
         /\ Relaxation(init, next)) =>
            /\ pc = "rates_done"
            /\ rate_constants[KeyNum(init)][KeyNum(next)].theory = "relaxation"
            /\ f # next => rate_constants[KeyNum(init)][KeyNum(f)].theory = "eyring"

----------------------------------------------------------------------------
(* Properties of rates() for the edges of the reactants (checked under Spec) *)

\* C26: for every direct vibrational-relaxation edge that leaves a reactant,
\* the value left in the rate matrix when rates() returns is the one the
\* relaxation theory gives at T = 300 K with the normal_mode of the edge,
\* however many reactants the configuration has.
C26_ReactantEdgeAt300K ==
    pc = "rates_done" =>
        \A r, f \in Keys :
            (data.condition[r] = "reactant" /\ Relaxation(r, f)) =>
                rate_constants[KeyNum(r)][KeyNum(f)]
                    = AdhocRelaxation_compute_rate(
                          energy_differences[KeyNum(r)][KeyNum(f)],
                          normal_mode(data, r, f), total_atoms(data),
                          Temperature(T_NEQ, 0, 1))

----------------------------------------------------------------------------
(* __main__.py: the loop of main() over the pairs of states that fills the *)
(* edge list and the rate matrix, and the table made of the edge list.     *)
(* The reader's answers for the state numbers i, j are the record          *)
(*   ans.ts      the triples <<i, j, f>>: a transition state j of i whose  *)
(*               final state is f                                          *)
(*   ans.final   for a pair <<i, j>>, the reaction type of the direct      *)
(*               entry from i to j, "absent" if there is none              *)

\* state_list_num
MainStates ==
    <<0, 1, 2>>

MainTsEntries ==
    {<<0, 1, 2>>, <<1, 2, 0>>, <<0, 2, 1>>}

MainFinalPairs ==
    {<<0, 1>>, <<0, 2>>, <<1, 2>>}

MainAnswers ==
    [ts : SUBSET MainTsEntries,
     final : [MainFinalPairs -> {"absent", "relaxation", "reaction"}]]

\* the branch "if toml_data._ts_existence(i, j) == True"
main_ts_branch(acc, ans, i, j, k_eyring) ==
    IF \E e \in ans.ts : e[1] = i /\ e[2] = j
    THEN LET fin_num == (CHOOSE e \in ans.ts : e[1] = i /\ e[2] = j)[3]
         IN [graph_table_num |-> acc.graph_table_num \o <<<<i, j>>, <<j, fin_num>>>>,
             rates |-> [acc.rates EXCEPT ![i][fin_num] = k_eyring]]
    ELSE acc

\* the branch "if toml_data._final_existence(i, j) == True"
main_final_branch(acc, ans, i, j, k_relax) ==
    IF <<i, j>> \in DOMAIN ans.final /\ ans.final[<<i, j>>] # "absent"
    THEN [graph_table_num |-> Append(acc.graph_table_num, <<i, j>>),
          rates |-> IF ans.final[<<i, j>>] = "relaxation"
                    THEN [acc.rates EXCEPT ![i][j] = k_relax]
                    ELSE acc.rates]
    ELSE acc

\* for i in range(num_states): for j in range(num_states)
RECURSIVE main_reaction_loop(_, _, _, _, _)
main_reaction_loop(acc, pairs, ans, k_eyring, k_relax) ==
    IF pairs = <<>> THEN acc
    ELSE main_reaction_loop(
             main_final_branch(
                 main_ts_branch(acc, ans, Head(pairs)[1], Head(pairs)[2], k_eyring),
                 ans, Head(pairs)[1], Head(pairs)[2], k_relax),
             Tail(pairs), ans, k_eyring, k_relax)

InitMainLoop ==
    /\ pc = "main_loop"
    /\ exc = "none"
    /\ raised_in = "none"
    /\ data \in MainAnswers
    /\ fs = <<>>
    /\ NoToml
    /\ NoEnergy
    /\ NoReactions
    /\ NoCall
    /\ concentration \in [Range(MainStates) -> 0..MaxOdeConc]
    /\ t = 0
    /\ table = <<>>
    /\ rate_matrix = <<>>
    /\ odes = <<>>

\* the loop over the pairs, then num_graph.add_edges_from(graph_table_num)
\* and table = nx.to_dict_of_lists(num_graph)
MainReactionLoop ==
    /\ pc = "main_loop"
    /\ \E k_eyring, k_relax \in 1..MaxRate :
          LET done == main_reaction_loop(
                          [graph_table_num |-> <<>>,
                           rates |-> [i \in Range(MainStates) |-> [j \in Range(MainStates) |-> 0]]],
                          LoopPairs(MainStates), data, k_eyring, k_relax)
          IN /\ rate_matrix' = done.rates
             /\ table' = to_dict_of_lists(MainStates, Range(done.graph_table_num))
    /\ pc' = "main_rates"
    /\ UNCHANGED <<callVars, exc, raised_in, tomlVars, energyVars, reactionVars, concentration, t,
                   odes>>

NextMainLoop ==
    \/ MainReactionLoop
    \/ MainOdeint

SpecMainLoop ==
    InitMainLoop /\ [][NextMainLoop]_vars

----------------------------------------------------------------------------
(* Termination of graph_teq_group (checked under Spec) *)

\* C28: when every reactant is a node of the reaction graph, the constructor
\* of TomlReader does not end inside graph_teq_group: the descendant groups
\* are returned whether or not the graph has directed cycles.
C28_GraphTeqGroupReturns ==
    (/\ raised_in = "graph_teq_group"
     /\ Range(reactant_names) \subseteq GraphNodes(reactions_name))
        => exc # "RecursionError"

----------------------------------------------------------------------------
(* Properties of rates() for an edge shared by several descendant groups   *)
(* (checked under Spec)                                                    *)

\* the positions, in the order rates() enumerates the direct successors of
\* the reactant, of the groups that hold the edge
GroupsWith(groups, edge) ==
    {k \in 1..Len(groups) : edge \in Range(groups[k][2])}

LastOf(S) ==
    CHOOSE k \in S : \A j \in S : j <= k

\* C29: with a single reactant, a direct vibrational-relaxation edge
\* (init, next) of a non-reactant init that lies in the descendant group of
\* one or more direct successors of the reactant ends with the relaxation
\* rate at the T_eq of the successor enumerated last among those whose group
\* holds the edge.
C29_LastGroupSetsTeq ==
    (pc = "rates_done" /\ Len(reactant_names) = 1) =>
        \A init, next \in Keys :
            LET reactant == reactant_names[1]
                groups == DictGet(teq_graph, reactant)
                holders == GroupsWith(groups, <<init, next>>)
            IN (init # reactant /\ Relaxation(init, next) /\ holders # {}) =>
                   rate_constants[KeyNum(init)][KeyNum(next)]
                       = AdhocRelaxation_compute_rate(
                             energy_differences[KeyNum(init)][KeyNum(next)],
                             normal_mode(data, init, next), total_atoms(data),
                             T_eq(data, name_to_num, state_list_energy, reactant,
                                  groups[LastOf(holders)][1]))

\* an edge held by the groups of two successors whose T_eq differ: the rate
\* left in its cell is not the one at the T_eq of the first of them
C29_Witness ==
    /\ pc = "rates_done"
    /\ Len(reactant_names) = 1
    /\ \E init, next \in Keys :
          LET reactant == reactant_names[1]
              groups == DictGet(teq_graph, reactant)
              holders == GroupsWith(groups, <<init, next>>)
          IN /\ init # reactant
             /\ Relaxation(init, next)
             /\ Cardinality(holders) >= 2
             /\ \E k \in holders :
                   rate_constants[KeyNum(init)][KeyNum(next)]
                       # AdhocRelaxation_compute_rate(
                             energy_differences[KeyNum(init)][KeyNum(next)],
                             normal_mode(data, init, next), total_atoms(data),
                             T_eq(data, name_to_num, state_list_energy, reactant,
                                  groups[k][1]))

----------------------------------------------------------------------------
(* Signs of the right-hand side at the ends of the network (checked under  *)
(* SpecOde, whose rates and concentrations are not negative)               *)

\* no entry of the table ends in s
NoInflow(s) ==
    \A i \in OdeIdx : EntryCount(table, i, s) = 0

\* no entry of the table starts in s
NoOutflow(s) ==
    \A j \in OdeIdx : EntryCount(table, s, j) = 0

\* C30: with rates and concentrations that are not negative, the derivative
\* construct_ode returns is at most 0 for a state that is the final state of
\* no table entry, and at least 0 for a state that is the initial state of
\* no table entry.
C30_SourceFallsSinkRises ==
    pc = "ode_done" =>
        \A s \in OdeIdx :
            /\ NoInflow(s) => odes[s] <= 0
            /\ NoOutflow(s) => odes[s] >= 0

\* a state without inflow that loses concentration to a state without
\* outflow
C30_Witness ==
    /\ pc = "ode_done"
    /\ \E s, u \in OdeIdx :
          /\ NoInflow(s) /\ odes[s] < 0
          /\ NoOutflow(u) /\ odes[u] > 0

============================================================================
